---- MODULE Spec2Model ----
(***************************************************************************)
(* StorageService (storage.service.ts): the work-item persistence layer.   *)
(* Two backing stores, a DynamoDB table (metadata) and an S3 bucket        *)
(* (objects), are driven by async handlers.  Every await on a store call   *)
(* is a point where another invocation may run, so each store call is one  *)
(* step of an invocation; an invocation lives in a slot of inv from its    *)
(* call until its result has been taken by the caller.                     *)
(***************************************************************************)
EXTENDS Naturals, Integers, Sequences, FiniteSets, TLC

VARIABLES
    enabled,    \* this.config.enabled
    now,        \* the clock read by Date.now() and new Date()
    table,      \* DynamoDB table: <<userId, fileId>> -> item
    bucket,     \* S3 bucket: key -> [body, contentType]
    inv,        \* invocation slots: the handler running in each, its locals
    faults,     \* store calls that have been made to fail so far
    started     \* invocations started so far

vars == <<enabled, now, table, bucket, inv, faults, started>>

(***************************************************************************)
(* Bounds of the model.                                                    *)
(***************************************************************************)
MaxProcs == 2      \* invocations in flight at once
MaxCalls == 3      \* invocations started in one behaviour
MaxFaults == 1     \* store calls that fail in one behaviour
MaxTicks == 1      \* clock advances in one behaviour
MaxUploads == 2    \* uploads started in one behaviour of SpecUpload
\* S3 answers one ListObjectsV2 request with at most 1000 keys; the model
\* scales that page size down so that a listing longer than one page fits
\* in the bounds.
ListMaxKeys == 3
\* A Query returns up to 1 MB of items per request; QueryMaxItems stands for
\* the number of records that fit.
QueryMaxItems == 2

Procs == 1..MaxProcs

(***************************************************************************)
(* Inputs.                                                                 *)
(***************************************************************************)
UserIds == {"u1"}
FileNames == {"a.tf", "b.tf"}
ClockValues == 10..(10 + MaxTicks)

\* createWorkItem's (fileName, fileType, fileBuffer, uploadMode).
SingleUploads ==
    { [fileName |-> "a.tf", fileType |-> "text/plain", fileBuffer |-> "B1",
       uploadMode |-> "SINGLE_FILE"],
      [fileName |-> "a.tf", fileType |-> "image/png", fileBuffer |-> "B2",
       uploadMode |-> "ZIP_FILE"],
      [fileName |-> "b.tf", fileType |-> "text/plain", fileBuffer |-> "B2",
       uploadMode |-> "MULTIPLE_FILES"] }

(***************************************************************************)
(* Pure helpers.                                                           *)
(***************************************************************************)
\* String.prototype.startsWith, also S3's Prefix match of a key.
StartsWith(s, p) == Len(p) <= Len(s) /\ SubSeq(s, 1, Len(p)) = p

\* new Date().toISOString(): the clock value as text.
toISOString(t) == "T" \o ToString(t)

\* sha256(...).digest('hex'): a fixed function of its input with no
\* collisions, modelled as the tagged input.
createFileIdHash(input) == "#" \o input

\* getS3Locations with the user id left out of the prefix.
getS3LocationsByFileId(userId, fileId) ==
    LET prefix == fileId
    IN  [ metadata           |-> prefix \o "/metadata.json",
          originalContent    |-> prefix \o "/original_content",
          analysisResults    |-> prefix \o "/analysis/analysis_results.json",
          iacDocument        |-> prefix \o "/iac_templates/generated_template",
          packedContent      |-> prefix \o "/packed_content",
          supportingDocument |-> prefix \o "/supporting_document" ]

getS3Locations(userId, fileId) ==
    LET prefix == userId \o "/" \o fileId
    IN  [ metadata           |-> prefix \o "/metadata.json",
          originalContent    |-> prefix \o "/original_content",
          analysisResults    |-> prefix \o "/analysis/analysis_results.json",
          iacDocument        |-> prefix \o "/iac_templates/generated_template",
          packedContent      |-> prefix \o "/packed_content",
          supportingDocument |-> prefix \o "/supporting_document" ]

\* The file ids creation can derive within the bounds.
FileIds == { createFileIdHash(n \o ToString(t)) : n \in FileNames, t \in ClockValues }

(***************************************************************************)
(* The stores.                                                             *)
(***************************************************************************)
\* DynamoDB PutItem: creates the item or replaces the one with the same key.
PutItem(t, item) == (<<item.userId, item.fileId>> :> item) @@ t

\* DynamoDB DeleteItem: removes the item; an absent item is no error.
DeleteItem(t, userId, fileId) ==
    [k \in DOMAIN t \ {<<userId, fileId>>} |-> t[k]]

\* lib-storage Upload(...).done(): writes or overwrites the object at Key.
Upload(b, key, body, contentType) ==
    (key :> [body |-> body, contentType |-> contentType]) @@ b

\* S3 ListObjectsV2 with Prefix: the keys starting with the prefix, one page
\* of them.  The page is the first ListMaxKeys keys in key order; which keys
\* those are is left open here.
ListObjectsV2(b, prefix) ==
    LET matching == { k \in DOMAIN b : StartsWith(k, prefix) }
    IN  IF Cardinality(matching) <= ListMaxKeys
        THEN { matching }
        ELSE { page \in SUBSET matching : Cardinality(page) = ListMaxKeys }

\* S3 DeleteObjects: removes the named keys.
DeleteObjects(b, keys) == [k \in DOMAIN b \ keys |-> b[k]]

(***************************************************************************)
(* Invocation slots.                                                       *)
(***************************************************************************)
Idle == [op |-> "none", pc |-> "idle"]

\* DynamoDB GetItem: the item, or nothing (result.Item undefined).
GetItem(t, userId, fileId) ==
    IF <<userId, fileId>> \in DOMAIN t THEN t[<<userId, fileId>>] ELSE <<>>

\* The objects of the bucket whose key starts with prefix.
Under(b, prefix) ==
    [k \in { x \in DOMAIN b : StartsWith(x, prefix) } |-> b[k]]

\* A fresh invocation of handler op on work item (userId, fileId).  Beside
\* the handler's own state the slot keeps a record of the run:
\*   pre     the work item's record and objects when the handler was called,
\*   alone   no other invocation has written to that work item since,
\*   overlap another invocation on that work item was in flight at one of
\*           this one's store calls,
\*   calls   the store calls this invocation has issued, in order.
\* An updateWorkItem slot also keeps, as before, the record its UpdateItem
\* was applied to.
Frame(op, pc, userId, fileId) ==
    [ op |-> op, pc |-> pc, userId |-> userId, fileId |-> fileId,
      result |-> "none", error |-> "", ret |-> <<>>,
      pre |-> [ item |-> GetItem(table, userId, fileId),
                objects |-> Under(bucket, userId \o "/" \o fileId) ],
      alone |-> TRUE, overlap |-> FALSE, calls |-> <<>> ]

Issue(s, call) == [s EXCEPT !.calls = Append(@, call)]
Throw(s, msg) == [s EXCEPT !.pc = "done", !.result = "fail", !.error = msg]
Return(s, value) == [s EXCEPT !.pc = "done", !.result = "ok", !.ret = value]

\* inv after slot p moves to s; a step that writes to a store marks every
\* other invocation on the same work item as no longer alone.
Step(p, s, writes) ==
    [ q \in Procs |->
        IF q = p
        THEN [s EXCEPT !.overlap =
                @ \/ \E r \in Procs \ {p} :
                        /\ inv[r].pc \notin {"idle", "done"}
                        /\ inv[r].userId = s.userId
                        /\ inv[r].fileId = s.fileId]
        ELSE IF /\ writes
                /\ inv[q].op # "none"
                /\ inv[q].userId = s.userId
                /\ inv[q].fileId = s.fileId
             THEN [inv[q] EXCEPT !.alone = FALSE]
             ELSE inv[q] ]

\* A slot is free once its invocation has finished; a new invocation takes
\* the first free slot (the slots are interchangeable).
Free(p) == inv[p].pc \in {"idle", "done"}
CanCall(p) ==
    /\ Free(p)
    /\ \A q \in Procs : q < p => ~Free(q)
    /\ started < MaxCalls

\* A handler's entry: the `if (!this.config.enabled) throw` guard, then s.
Enter(p, op, userId, s) ==
    /\ CanCall(p)
    /\ started' = started + 1
    /\ inv' = [inv EXCEPT ![p] =
                 IF enabled THEN s
                 ELSE Throw(Frame(op, "entry", userId, ""), "Storage is not enabled")]
    /\ UNCHANGED <<enabled, now, table, bucket, faults>>

\* StoreCall for a client wrapper that retries: after a failed call the
\* handler stays at the same await and sends the call again.
StoreCallRetrying(p, call, writes, ok, newTable, newBucket, msg) ==
    \/ /\ table' = newTable
       /\ bucket' = newBucket
       /\ inv' = Step(p, Issue(ok, call), writes)
       /\ UNCHANGED <<enabled, now, faults, started>>
    \/ /\ faults < MaxFaults
       /\ faults' = faults + 1
       /\ inv' = Step(p, Issue(inv[p], call), FALSE)
       /\ UNCHANGED <<enabled, now, table, bucket, started>>

\* One awaited store call of slot p: it succeeds, leaving the stores as
\* given and the slot in ok, or it fails (the client throws), leaving the
\* stores alone and the handler in its catch block, which throws msg.
StoreCall(p, call, writes, ok, newTable, newBucket, msg) ==
    \/ /\ table' = newTable
       /\ bucket' = newBucket
       /\ inv' = Step(p, Issue(ok, call), writes)
       /\ UNCHANGED <<enabled, now, faults, started>>
    \/ /\ faults < MaxFaults
       /\ faults' = faults + 1
       /\ inv' = Step(p, Throw(Issue(inv[p], call), msg), FALSE)
       /\ UNCHANGED <<enabled, now, table, bucket, started>>

At(p, op, pc) == inv[p].pc = pc /\ inv[p].op = op

(***************************************************************************)
(* createWorkItem                                                          *)
(***************************************************************************)
NewWorkItem(userId, fileId, fileName, fileType, timestamp, uploadMode) ==
    [ userId |-> userId, fileId |-> fileId,
      fileName |-> fileName, fileType |-> fileType,
      uploadDate |-> timestamp,
      analysisStatus |-> "NOT_STARTED", analysisProgress |-> 0,
      iacGenerationStatus |-> "NOT_STARTED", iacGenerationProgress |-> 0,
      s3Prefix |-> userId \o "/" \o fileId,
      lastModified |-> timestamp,
      uploadMode |-> uploadMode ]

\* JSON.stringify(workItem)
JSONstringify(v) == [json |-> v]

createWorkItem(p, userId, fileName, fileType, fileBuffer, uploadMode) ==
    LET fileId == createFileIdHash(fileName \o ToString(now))
        workItem == NewWorkItem(userId, fileId, fileName, fileType,
                                toISOString(now), uploadMode)
    IN  Enter(p, "createWorkItem", userId,
              Frame("createWorkItem", "PutItem", userId, fileId)
                @@ [ workItem |-> workItem, fileName |-> fileName,
                     fileType |-> fileType, fileBuffer |-> fileBuffer,
                     uploadMode |-> uploadMode ])

createWorkItemPutItem(p) ==
    /\ At(p, "createWorkItem", "PutItem")
    /\ StoreCall(p, "PutItem", TRUE,
                 [inv[p] EXCEPT !.pc = "UploadOriginal"],
                 PutItem(table, inv[p].workItem), bucket,
                 "Failed to create work item")

\* createWorkItemUploadOriginal without the ContentType parameter: S3 then
\* stores the object as binary/octet-stream.
createWorkItemUploadOriginalNoContentType(p) ==
    /\ At(p, "createWorkItem", "UploadOriginal")
    /\ LET s == inv[p]
           loc == getS3Locations(s.userId, s.fileId)
       IN  StoreCall(p, "Upload original_content", TRUE,
                     [s EXCEPT !.pc = "UploadMetadata"],
                     table,
                     Upload(bucket, loc.originalContent, s.fileBuffer, "binary/octet-stream"),
                     "Failed to create work item")

createWorkItemUploadOriginal(p) ==
    /\ At(p, "createWorkItem", "UploadOriginal")
    /\ LET s == inv[p]
           loc == getS3Locations(s.userId, s.fileId)
       IN  StoreCall(p, "Upload original_content", TRUE,
                     [s EXCEPT !.pc = "UploadMetadata"],
                     table,
                     Upload(bucket, loc.originalContent, s.fileBuffer, s.workItem.fileType),
                     "Failed to create work item")

\* createWorkItemUploadMetadata with a compensating catch block: when the
\* snapshot write fails, the record and the original content are removed.
createWorkItemUploadMetadataRollback(p) ==
    /\ At(p, "createWorkItem", "UploadMetadata")
    /\ LET s == inv[p]
           loc == getS3Locations(s.userId, s.fileId)
       IN  \/ /\ table' = table
              /\ bucket' = Upload(bucket, loc.metadata, JSONstringify(s.workItem),
                                  "application/json")
              /\ inv' = Step(p, Issue(Return(s, s.workItem), "Upload metadata.json"), TRUE)
              /\ UNCHANGED <<enabled, now, faults, started>>
           \/ /\ faults < MaxFaults
              /\ faults' = faults + 1
              /\ table' = DeleteItem(table, s.userId, s.fileId)
              /\ bucket' = DeleteObjects(bucket, {loc.originalContent})
              /\ inv' = Step(p, Throw(Issue(s, "Upload metadata.json"),
                                      "Failed to create work item"), TRUE)
              /\ UNCHANGED <<enabled, now, started>>

createWorkItemUploadMetadata(p) ==
    /\ At(p, "createWorkItem", "UploadMetadata")
    /\ LET s == inv[p]
           loc == getS3Locations(s.userId, s.fileId)
       IN  StoreCall(p, "Upload metadata.json", TRUE,
                     Return(s, s.workItem),
                     table,
                     Upload(bucket, loc.metadata, JSONstringify(s.workItem), "application/json"),
                     "Failed to create work item")

(***************************************************************************)
(* deleteWorkItem                                                          *)
(***************************************************************************)
\* Beside its locals a deleteWorkItem slot keeps retry, whether the call
\* follows a successful deleteWorkItem of the same work item with no write to
\* it in between, and stores, the table and bucket at the call.
deleteWorkItem(p, userId, fileId) ==
    Enter(p, "deleteWorkItem", userId,
          Frame("deleteWorkItem", "ListObjectsV2", userId, fileId)
            @@ [ listed |-> {},
                 retry |-> \E q \in Procs :
                              /\ At(q, "deleteWorkItem", "done")
                              /\ inv[q].result = "ok"
                              /\ inv[q].userId = userId
                              /\ inv[q].fileId = fileId
                              /\ inv[q].alone,
                 stores |-> [table |-> table, bucket |-> bucket] ])

\* deleteWorkItem with the metadata record removed first: the DeleteItem is
\* sent before the listing.
deleteWorkItemDeleteItemFirst(p) ==
    /\ At(p, "deleteWorkItem", "ListObjectsV2")
    /\ \E Contents \in ListObjectsV2(bucket, inv[p].userId \o "/" \o inv[p].fileId) :
          StoreCall(p, "ListObjectsV2", TRUE,
                    [Issue(inv[p], "DeleteItem")
                       EXCEPT !.listed = Contents,
                              !.pc = IF Contents # {} THEN "DeleteObjects"
                                     ELSE "DeleteItem"],
                    DeleteItem(table, inv[p].userId, inv[p].fileId), bucket,
                    "Failed to delete work item")

deleteWorkItemList(p) ==
    /\ At(p, "deleteWorkItem", "ListObjectsV2")
    /\ \E Contents \in ListObjectsV2(bucket, inv[p].userId \o "/" \o inv[p].fileId) :
          StoreCall(p, "ListObjectsV2", FALSE,
                    [inv[p] EXCEPT !.listed = Contents,
                                   !.pc = IF Contents # {} THEN "DeleteObjects"
                                          ELSE "DeleteItem"],
                    table, bucket,
                    "Failed to delete work item")

deleteWorkItemDeleteObjects(p) ==
    /\ At(p, "deleteWorkItem", "DeleteObjects")
    /\ StoreCall(p, "DeleteObjects", TRUE,
                 [inv[p] EXCEPT !.pc = "DeleteItem"],
                 table, DeleteObjects(bucket, inv[p].listed),
                 "Failed to delete work item")

deleteWorkItemDeleteItem(p) ==
    /\ At(p, "deleteWorkItem", "DeleteItem")
    /\ StoreCall(p, "DeleteItem", TRUE,
                 Return(inv[p], "void"),
                 DeleteItem(table, inv[p].userId, inv[p].fileId), bucket,
                 "Failed to delete work item")

(***************************************************************************)
(* ProjectPacker (shared/utils/project-packer): the content packer.  Its   *)
(* source is not part of the files at hand; it is modelled from its        *)
(* specification: packing yields one text with a header per file, a token  *)
(* estimate that grows with the text, and exceedsTokenLimit as             *)
(* tokenCount > limit; a corrupt archive or an empty file set throws.      *)
(***************************************************************************)
TokenLimit == 9

estimateTokens(text) == Len(text)

Packed(text) ==
    [ ok |-> TRUE, packedContent |-> text,
      tokenCount |-> estimateTokens(text),
      exceedsTokenLimit |-> estimateTokens(text) > TokenLimit ]

PackingFailure(message) == [ok |-> FALSE, message |-> message]

\* An archive is modelled by its name; "Zbad" is a corrupt one.
processZipFile(buffer, filename) ==
    IF buffer = "Zbad" THEN PackingFailure("Invalid zip file")
    ELSE Packed("packed " \o buffer)

RECURSIVE PackFiles(_)
PackFiles(files) ==
    IF files = <<>> THEN ""
    ELSE "[" \o Head(files).filename \o "]" \o Head(files).buffer
           \o PackFiles(Tail(files))

processMultipleFiles(files) ==
    IF files = <<>> THEN PackingFailure("No files provided")
    ELSE Packed(PackFiles(files))

RECURSIVE ZipEntries(_)
ZipEntries(files) ==
    IF files = <<>> THEN ""
    ELSE Head(files).filename \o "=" \o Head(files).buffer \o ";"
           \o ZipEntries(Tail(files))

createZipFromFiles(files) ==
    IF files = <<>> THEN PackingFailure("No files provided")
    ELSE [ok |-> TRUE, zipBuffer |-> "zip{" \o ZipEntries(files) \o "}"]

(***************************************************************************)
(* storeWorkItemInDynamoDB, storeOriginalContent, storePackedContent as    *)
(* called by the two packed uploads, then the uploads themselves.          *)
(***************************************************************************)
\* After an awaited call the handler runs on to its next await: the callee's
\* `enabled` guard throws there, into the caller's catch.
UploadGuard(s, pc, prefix) ==
    IF enabled THEN [s EXCEPT !.pc = pc]
    ELSE Throw(s, prefix \o "Storage is not enabled")

\* PackedWorkItem with the flag worked out again from the count, the limit
\* itself counting as exceeded.
PackedWorkItemAtLimit(userId, fileId, fileName, fileType, timestamp, uploadMode, packedProject) ==
    NewWorkItem(userId, fileId, fileName, fileType, timestamp, uploadMode)
      @@ [ tokenCount |-> packedProject.tokenCount,
           exceedsTokenLimit |-> packedProject.tokenCount >= TokenLimit ]

PackedWorkItem(userId, fileId, fileName, fileType, timestamp, uploadMode, packedProject) ==
    NewWorkItem(userId, fileId, fileName, fileType, timestamp, uploadMode)
      @@ [ tokenCount |-> packedProject.tokenCount,
           exceedsTokenLimit |-> packedProject.exceedsTokenLimit ]

\* The steps shared by handleZipFile and handleMultipleFiles; prefix is the
\* start of the message their catch block throws.
PackedUploadPutItem(p, op, prefix) ==
    /\ At(p, op, "PutItem")
    /\ StoreCall(p, "PutItem", TRUE,
                 UploadGuard(inv[p], "UploadOriginal", prefix),
                 PutItem(table, inv[p].workItem), bucket,
                 prefix \o "Failed to store work item metadata")

PackedUploadStoreOriginal(p, op, prefix) ==
    /\ At(p, op, "UploadOriginal")
    /\ LET s == inv[p]
           loc == getS3Locations(s.userId, s.fileId)
       IN  StoreCall(p, "Upload original_content", TRUE,
                     UploadGuard(s, "UploadPacked", prefix),
                     table,
                     Upload(bucket, loc.originalContent, s.archive, "application/zip"),
                     prefix \o "Failed to store original content")

\* PackedUploadStorePacked for an upload that, like createWorkItem, also
\* writes the record to metadata.json.
PackedUploadStorePackedAndSnapshot(p, op, prefix) ==
    /\ At(p, op, "UploadPacked")
    /\ LET s == inv[p]
           loc == getS3Locations(s.userId, s.fileId)
       IN  StoreCall(p, "Upload packed_content", TRUE,
                     Return(s, [ fileId |-> s.fileId,
                                 tokenCount |-> s.packedProject.tokenCount,
                                 exceedsTokenLimit |-> s.packedProject.exceedsTokenLimit ]),
                     table,
                     Upload(Upload(bucket, loc.packedContent,
                                   s.packedProject.packedContent, "text/plain"),
                            loc.metadata, JSONstringify(s.workItem), "application/json"),
                     prefix \o "Failed to store packed content")

PackedUploadStorePacked(p, op, prefix) ==
    /\ At(p, op, "UploadPacked")
    /\ LET s == inv[p]
           loc == getS3Locations(s.userId, s.fileId)
       IN  StoreCall(p, "Upload packed_content", TRUE,
                     Return(s, [ fileId |-> s.fileId,
                                 tokenCount |-> s.packedProject.tokenCount,
                                 exceedsTokenLimit |-> s.packedProject.exceedsTokenLimit ]),
                     table,
                     Upload(bucket, loc.packedContent, s.packedProject.packedContent, "text/plain"),
                     prefix \o "Failed to store packed content")

\* PackedUploadEnter for an upload that records the job before it packs: a
\* record is in the table when packing fails.
PackedUploadEnterRecordingFirst(p, op, prefix, userId, fileId, packedProject, s) ==
    /\ CanCall(p)
    /\ started' = started + 1
    /\ inv' = [inv EXCEPT ![p] =
                 IF packedProject.ok THEN s
                 ELSE Throw(Frame(op, "entry", userId, ""),
                            prefix \o packedProject.message)]
    /\ table' = IF packedProject.ok THEN table
                ELSE PutItem(table, [userId |-> userId, fileId |-> "pending"])
    /\ UNCHANGED <<enabled, now, bucket, faults>>

\* A packed upload's entry.  There is no `enabled` guard here: the handler
\* packs, builds the record and goes on to storeWorkItemInDynamoDB.
PackedUploadEnter(p, op, prefix, userId, fileId, packedProject, s) ==
    /\ CanCall(p)
    /\ started' = started + 1
    /\ inv' = [inv EXCEPT ![p] =
                 IF packedProject.ok THEN s
                 ELSE Throw(Frame(op, "entry", userId, ""),
                            prefix \o packedProject.message)]
    /\ UNCHANGED <<enabled, now, table, bucket, faults>>

handleZipFile(p, userId, filename, buffer) ==
    LET packedProject == processZipFile(buffer, filename)
        fileId == createFileIdHash(filename \o ToString(now))
        workItem == PackedWorkItem(userId, fileId, filename, "application/zip",
                                   toISOString(now), "ZIP_FILE", packedProject)
    IN  PackedUploadEnter(p, "handleZipFile", "Failed to process zip file: ",
                          userId, fileId, packedProject,
                          Frame("handleZipFile", "PutItem", userId, fileId)
                            @@ [ workItem |-> workItem, archive |-> buffer,
                                 packedProject |-> packedProject,
                                 filename |-> filename, buffer |-> buffer ])

handleZipFilePutItem(p) ==
    PackedUploadPutItem(p, "handleZipFile", "Failed to process zip file: ")
handleZipFileStoreOriginal(p) ==
    PackedUploadStoreOriginal(p, "handleZipFile", "Failed to process zip file: ")
handleZipFileStorePacked(p) ==
    PackedUploadStorePacked(p, "handleZipFile", "Failed to process zip file: ")

combinedFilename(files) ==
    IF Len(files) < 2 THEN files[1].filename
    ELSE files[1].filename \o "_and_" \o ToString(Len(files) - 1) \o "_more_files"

handleMultipleFiles(p, userId, files) ==
    LET zip == createZipFromFiles(files)
        packedProject == IF zip.ok THEN processMultipleFiles(files) ELSE zip
        fileId == createFileIdHash(files[1].filename \o ToString(now))
        workItem == PackedWorkItem(userId, fileId, combinedFilename(files),
                                   "application/multiple-files",
                                   toISOString(now), "MULTIPLE_FILES", packedProject)
    IN  PackedUploadEnter(p, "handleMultipleFiles", "Failed to process multiple files: ",
                          userId, fileId, packedProject,
                          Frame("handleMultipleFiles", "PutItem", userId, fileId)
                            @@ [ workItem |-> workItem, archive |-> zip.zipBuffer,
                                 packedProject |-> packedProject,
                                 files |-> files ])

handleMultipleFilesPutItem(p) ==
    PackedUploadPutItem(p, "handleMultipleFiles", "Failed to process multiple files: ")
handleMultipleFilesStoreOriginal(p) ==
    PackedUploadStoreOriginal(p, "handleMultipleFiles", "Failed to process multiple files: ")
handleMultipleFilesStorePacked(p) ==
    PackedUploadStorePacked(p, "handleMultipleFiles", "Failed to process multiple files: ")

(***************************************************************************)
(* updateWorkItem, getWorkItem                                             *)
(***************************************************************************)
\* A WorkItemUpdate is modelled by the fields it gives a value (vals) and
\* the fields it carries as undefined (undef).
ObjectEntries(updates) == DOMAIN updates.vals \cup updates.undef

\* The forEach of updateWorkItem: the entries whose value is not undefined,
\* each becoming one `#key = :key` of the SET expression.
SetActions(updates) ==
    [key \in { k \in ObjectEntries(updates) : k \notin updates.undef } |->
        updates.vals[key]]

\* Attributes for a store update that writes the whole item (a PutItem of
\* the key and the given fields) instead of a SET on the item.
AttributesReplaced(t, userId, fileId, sets) ==
    sets @@ [userId |-> userId, fileId |-> fileId]

\* DynamoDB UpdateItem with `SET #k = :k, ...` and ReturnValues ALL_NEW: the
\* named attributes are written on the item with that key and all others
\* are kept; an item that is not there is created from the key and the SET.
Attributes(t, userId, fileId, sets) ==
    LET key == <<userId, fileId>>
        old == IF key \in DOMAIN t THEN t[key]
               ELSE [userId |-> userId, fileId |-> fileId]
    IN  sets @@ old

UpdateItem(t, userId, fileId, sets) ==
    (<<userId, fileId>> :> Attributes(t, userId, fileId, sets)) @@ t

\* The awaited UpdateItem of slot p with the SET actions sets.  DynamoDB
\* rejects an UpdateExpression that is the bare word SET, and empty
\* ExpressionAttributeNames and ExpressionAttributeValues, with a
\* ValidationException: that send always throws.
SendUpdateItem(p, sets, ok, msg) ==
    LET s == inv[p] IN
    IF DOMAIN sets = {}
    THEN /\ inv' = Step(p, Throw(Issue(s, "UpdateItem"), msg), FALSE)
         /\ UNCHANGED <<enabled, now, table, bucket, faults, started>>
    ELSE StoreCall(p, "UpdateItem", TRUE, ok,
                   UpdateItem(table, s.userId, s.fileId, sets), bucket,
                   msg)

updateWorkItem(p, userId, fileId, updates) ==
    Enter(p, "updateWorkItem", userId,
          Frame("updateWorkItem", "UpdateItem", userId, fileId)
            @@ [updates |-> updates, before |-> <<>>])

\* updateWorkItemUpdateItem for a service that checks the transition: a
\* status goes forward only, NOT_STARTED to IN_PROGRESS to COMPLETED or
\* FAILED, and any other change is refused.
updateWorkItemUpdateItemValidating(p) ==
    /\ At(p, "updateWorkItem", "UpdateItem")
    /\ LET StatusRank(status) ==
               IF status = "NOT_STARTED" THEN 0
               ELSE IF status = "IN_PROGRESS" THEN 1 ELSE 2
           s == inv[p]
           sets == SetActions(s.updates)
           item == GetItem(table, s.userId, s.fileId)
           refused == \E k \in DOMAIN sets \cap {"analysisStatus", "iacGenerationStatus"} :
                         /\ item # <<>>
                         /\ k \in DOMAIN item
                         /\ StatusRank(sets[k]) < StatusRank(item[k])
       IN  IF refused
           THEN /\ inv' = Step(p, Throw(s, "Failed to update work item"), FALSE)
                /\ UNCHANGED <<enabled, now, table, bucket, faults, started>>
           ELSE SendUpdateItem(p, sets,
                               [Return(s, Attributes(table, s.userId, s.fileId, sets))
                                  EXCEPT !.before = GetItem(table, s.userId, s.fileId)],
                               "Failed to update work item")

updateWorkItemUpdateItem(p) ==
    /\ At(p, "updateWorkItem", "UpdateItem")
    /\ LET s == inv[p]
           sets == SetActions(s.updates)
       IN  SendUpdateItem(p, sets,
                          [Return(s, Attributes(table, s.userId, s.fileId, sets))
                             EXCEPT !.before = GetItem(table, s.userId, s.fileId)],
                          "Failed to update work item")

getWorkItem(p, userId, fileId) ==
    Enter(p, "getWorkItem", userId,
          Frame("getWorkItem", "GetItem", userId, fileId))

getWorkItemGetItem(p) ==
    /\ At(p, "getWorkItem", "GetItem")
    /\ LET s == inv[p]
           Item == GetItem(table, s.userId, s.fileId)
       IN  StoreCall(p, "GetItem", FALSE,
                     IF Item = <<>> THEN Throw(s, "Failed to get work item")
                     ELSE Return(s, Item),
                     table, bucket,
                     "Failed to get work item")

(***************************************************************************)
(* storeSupportingDocument, linkSupportingDocumentToWorkItem               *)
(***************************************************************************)
supportingDocKey(userId, mainFileId, supportingDocId) ==
    userId \o "/" \o mainFileId \o "/supporting_documents/" \o supportingDocId

\* linkSupportingDocumentToWorkItem without the supportingDocumentAdded flag.
linkSupportingDocumentIdOnly(supportingDocId, docName, docType, description, timestamp) ==
    [ vals |-> [ supportingDocumentId |-> supportingDocId,
                 supportingDocumentDescription |-> description,
                 supportingDocumentName |-> docName,
                 supportingDocumentType |-> docType,
                 lastModified |-> timestamp ],
      undef |-> {} ]

\* The partial that linkSupportingDocumentToWorkItem hands to updateWorkItem.
linkSupportingDocumentToWorkItem(supportingDocId, docName, docType, description, timestamp) ==
    [ vals |-> [ supportingDocumentId |-> supportingDocId,
                 supportingDocumentAdded |-> TRUE,
                 supportingDocumentDescription |-> description,
                 supportingDocumentName |-> docName,
                 supportingDocumentType |-> docType,
                 lastModified |-> timestamp ],
      undef |-> {} ]

storeSupportingDocument(p, userId, mainFileId, fileName, fileType, fileBuffer, description) ==
    LET supportingDocId ==
            createFileIdHash("supporting_" \o mainFileId \o "_" \o fileName
                               \o "_" \o ToString(now))
    IN  Enter(p, "storeSupportingDocument", userId,
              Frame("storeSupportingDocument", "UploadBlob", userId, mainFileId)
                @@ [ supportingDocId |-> supportingDocId,
                     fileName |-> fileName, fileType |-> fileType,
                     fileBuffer |-> fileBuffer, description |-> description,
                     timestamp |-> toISOString(now),
                     updates |-> <<>> ])

\* storeSupportingDocumentUploadBlob for a store that keeps one document per
\* work item: the objects under supporting_documents/ are removed as the new
\* blob is written.
storeSupportingDocumentUploadBlobReplacing(p) ==
    /\ At(p, "storeSupportingDocument", "UploadBlob")
    /\ LET s == inv[p]
           superseded == { k \in DOMAIN bucket :
                             StartsWith(k, supportingDocKey(s.userId, s.fileId, "")) }
       IN  StoreCall(p, "Upload supporting_documents/id", TRUE,
                     [s EXCEPT !.pc = "UploadSidecar"],
                     table,
                     Upload(DeleteObjects(bucket, superseded),
                            supportingDocKey(s.userId, s.fileId, s.supportingDocId),
                            s.fileBuffer, s.fileType),
                     "Failed to store supporting document")

\* storeSupportingDocumentUploadBlob for a handler that links the document
\* on the record as it writes the blob, before the sidecar is written.
storeSupportingDocumentUploadBlobLinking(p) ==
    /\ At(p, "storeSupportingDocument", "UploadBlob")
    /\ LET s == inv[p]
           link == linkSupportingDocumentToWorkItem(
                       s.supportingDocId, s.fileName, s.fileType,
                       s.description, toISOString(now))
       IN  StoreCall(p, "Upload supporting_documents/id", TRUE,
                     [s EXCEPT !.pc = "UploadSidecar"],
                     UpdateItem(table, s.userId, s.fileId, SetActions(link)),
                     Upload(bucket, supportingDocKey(s.userId, s.fileId, s.supportingDocId),
                            s.fileBuffer, s.fileType),
                     "Failed to store supporting document")

storeSupportingDocumentUploadBlob(p) ==
    /\ At(p, "storeSupportingDocument", "UploadBlob")
    /\ LET s == inv[p]
       IN  StoreCall(p, "Upload supporting_documents/id", TRUE,
                     [s EXCEPT !.pc = "UploadSidecar"],
                     table,
                     Upload(bucket, supportingDocKey(s.userId, s.fileId, s.supportingDocId),
                            s.fileBuffer, s.fileType),
                     "Failed to store supporting document")

\* After the sidecar is stored the handler runs on into
\* linkSupportingDocumentToWorkItem and updateWorkItem, up to the UpdateItem.
storeSupportingDocumentUploadSidecar(p) ==
    /\ At(p, "storeSupportingDocument", "UploadSidecar")
    /\ LET s == inv[p]
           metadata == [ userId |-> s.userId, fileId |-> s.supportingDocId,
                         mainFileId |-> s.fileId, fileName |-> s.fileName,
                         fileType |-> s.fileType, uploadDate |-> s.timestamp,
                         lastModified |-> s.timestamp,
                         description |-> s.description,
                         type |-> "supporting-document" ]
       IN  StoreCall(p, "Upload supporting_documents/id_metadata.json", TRUE,
                     [s EXCEPT !.pc = "UpdateItem",
                               !.updates = linkSupportingDocumentToWorkItem(
                                               s.supportingDocId, s.fileName, s.fileType,
                                               s.description, toISOString(now))],
                     table,
                     Upload(bucket,
                            supportingDocKey(s.userId, s.fileId, s.supportingDocId)
                              \o "_metadata.json",
                            JSONstringify(metadata), "application/json"),
                     "Failed to store supporting document")

storeSupportingDocumentLink(p) ==
    /\ At(p, "storeSupportingDocument", "UpdateItem")
    /\ SendUpdateItem(p, SetActions(inv[p].updates),
                      Return(inv[p], inv[p].supportingDocId),
                      "Failed to store supporting document")

(***************************************************************************)
(* getSupportingDocument                                                   *)
(***************************************************************************)
\* The checks between the awaited getWorkItem and the GetObject: the error
\* thrown for the record workItem and the requested id, "" when none is.
supportingDocumentCheck(workItem, supportingDocId) ==
    IF \/ "supportingDocumentId" \notin DOMAIN workItem
       \/ workItem.supportingDocumentId = ""
       \/ "supportingDocumentAdded" \notin DOMAIN workItem
       \/ workItem.supportingDocumentAdded # TRUE
    THEN "No supporting document available for this work item"
    ELSE IF workItem.supportingDocumentId # supportingDocId
    THEN "Supporting document ID does not match the work item record"
    ELSE ""

\* An error caught by a handler's catch block: logger.error(..., error)
\* keeps the error that was thrown, the caller gets msg.
Catch(s, thrown, msg) == [Throw(s, msg) EXCEPT !.logged = thrown]

getSupportingDocument(p, userId, mainFileId, supportingDocId) ==
    Enter(p, "getSupportingDocument", userId,
          Frame("getSupportingDocument", "GetItem", userId, mainFileId)
            @@ [ supportingDocId |-> supportingDocId, workItem |-> <<>>,
                 logged |-> "" ])

\* getSupportingDocumentGetWorkItem with the id comparison left out.
getSupportingDocumentAnyLinked(p) ==
    /\ At(p, "getSupportingDocument", "GetItem")
    /\ LET s == inv[p]
           Item == GetItem(table, s.userId, s.fileId)
           check == supportingDocumentCheck(Item, s.supportingDocId)
           thrown == IF Item = <<>> THEN "Failed to get work item"
                     ELSE IF check = "No supporting document available for this work item"
                     THEN check
                     ELSE ""
       IN  StoreCall(p, "GetItem", FALSE,
                     IF thrown # ""
                     THEN Catch(s, thrown, "Failed to get supporting document")
                     ELSE [s EXCEPT !.pc = "GetObject", !.workItem = Item],
                     table, bucket,
                     "Failed to get supporting document")

\* The awaited getWorkItem (its GetItem), then the two checks on the record.
getSupportingDocumentGetWorkItem(p) ==
    /\ At(p, "getSupportingDocument", "GetItem")
    /\ LET s == inv[p]
           Item == GetItem(table, s.userId, s.fileId)
           thrown == IF Item = <<>> THEN "Failed to get work item"
                     ELSE supportingDocumentCheck(Item, s.supportingDocId)
       IN  StoreCall(p, "GetItem", FALSE,
                     IF thrown # ""
                     THEN Catch(s, thrown, "Failed to get supporting document")
                     ELSE [s EXCEPT !.pc = "GetObject", !.workItem = Item],
                     table, bucket,
                     "Failed to get supporting document")

\* S3 GetObject: the object at the key; a key that is not there is the
\* error NoSuchKey.
getSupportingDocumentGetObject(p) ==
    /\ At(p, "getSupportingDocument", "GetObject")
    /\ LET s == inv[p]
           key == supportingDocKey(s.userId, s.fileId, s.supportingDocId)
       IN  StoreCall(p, "GetObject supporting_documents/id", FALSE,
                     IF key \notin DOMAIN bucket
                     THEN Catch(s, "NoSuchKey", "Failed to get supporting document")
                     ELSE Return(s, [ data |-> bucket[key].body,
                                      contentType |->
                                         IF bucket[key].contentType = ""
                                         THEN "application/octet-stream"
                                         ELSE bucket[key].contentType,
                                      fileName |->
                                         IF \/ "supportingDocumentName" \notin DOMAIN s.workItem
                                            \/ s.workItem.supportingDocumentName = ""
                                         THEN "supporting-document"
                                         ELSE s.workItem.supportingDocumentName ]),
                     table, bucket,
                     "Failed to get supporting document")

(***************************************************************************)
(* Buffers and strings.  The body of an object is a sequence of bytes; it  *)
(* is written here as the text whose characters have those bytes as codes  *)
(* (all bodies of the model are ASCII).  A content value handed to or      *)
(* returned by a handler is a Buffer or a string: [type, value].           *)
(***************************************************************************)
\* The characters with codes 32 to 126, in order.  The grave accent (96)
\* cannot stand in a string here; a tab holds its place.
Ascii ==
    " !\"#$%&'()*+,-./0123456789:;<=>?@ABCDEFGHIJKLMNOPQRSTUVWXYZ[\\]^_\tabcdefghijklmnopqrstuvwxyz{|}~"
Base64Alphabet ==
    "ABCDEFGHIJKLMNOPQRSTUVWXYZabcdefghijklmnopqrstuvwxyz0123456789+/"

\* String.prototype.indexOf: the first position of sub in s, 0 when none.
indexOf(s, sub) ==
    LET at == { i \in 1..(Len(s) - Len(sub) + 1) : SubSeq(s, i, i + Len(sub) - 1) = sub }
    IN  IF at = {} THEN 0 ELSE CHOOSE i \in at : \A j \in at : i <= j

\* String.prototype.includes
includes(s, sub) == indexOf(s, sub) # 0

charCode(c) == 31 + indexOf(Ascii, c)
fromCharCode(n) == SubSeq(Ascii, n - 31, n - 31)

\* The value of a base64 digit; "=" (padding) counts as 0.
Sextet(c) == IF c = "=" THEN 0 ELSE indexOf(Base64Alphabet, c) - 1

\* Buffer.from(text, 'base64') for well-formed base64 text: each group of
\* four digits gives three bytes, fewer where the group is padded.
RECURSIVE base64Decode(_)
base64Decode(text) ==
    IF Len(text) < 4 THEN ""
    ELSE LET bits == Sextet(SubSeq(text, 1, 1)) * 262144
                       + Sextet(SubSeq(text, 2, 2)) * 4096
                       + Sextet(SubSeq(text, 3, 3)) * 64
                       + Sextet(SubSeq(text, 4, 4))
             b1 == fromCharCode(bits \div 65536)
             b2 == IF SubSeq(text, 3, 3) = "=" THEN ""
                   ELSE fromCharCode((bits \div 256) % 256)
             b3 == IF SubSeq(text, 4, 4) = "=" THEN ""
                   ELSE fromCharCode(bits % 256)
         IN  b1 \o b2 \o b3 \o base64Decode(SubSeq(text, 5, Len(text)))

\* buffer.toString('base64')
RECURSIVE base64Encode(_)
base64Encode(bytes) ==
    IF bytes = "" THEN ""
    ELSE LET n == IF Len(bytes) < 3 THEN Len(bytes) ELSE 3
             c1 == charCode(SubSeq(bytes, 1, 1))
             c2 == IF n >= 2 THEN charCode(SubSeq(bytes, 2, 2)) ELSE 0
             c3 == IF n >= 3 THEN charCode(SubSeq(bytes, 3, 3)) ELSE 0
             bits == c1 * 65536 + c2 * 256 + c3
             digit(k) == SubSeq(Base64Alphabet, k + 1, k + 1)
         IN  digit(bits \div 262144) \o digit((bits \div 4096) % 64)
               \o (IF n >= 2 THEN digit((bits \div 64) % 64) ELSE "=")
               \o (IF n >= 3 THEN digit(bits % 64) ELSE "=")
               \o base64Encode(SubSeq(bytes, n + 1, Len(bytes)))

\* UTF-8: a character below U+0080 is the one byte with its code, and back.
RECURSIVE utf8(_)
utf8(text) ==
    IF text = "" THEN ""
    ELSE fromCharCode(charCode(SubSeq(text, 1, 1))) \o utf8(SubSeq(text, 2, Len(text)))

Buffer(bytes) == [type |-> "Buffer", value |-> bytes]
String(text) == [type |-> "string", value |-> text]

\* The bytes S3 stores for a Body that is a Buffer or a string.
Body(content) ==
    IF content.type = "string" THEN utf8(content.value) ELSE content.value

(***************************************************************************)
(* storeOriginalContent, getOriginalContent, getPackedContent              *)
(***************************************************************************)
\* content.split(';base64,')[1] || content
base64Data(text) ==
    LET i == indexOf(text, ";base64,")
        rest == SubSeq(text, i + 8, Len(text))
        j == indexOf(rest, ";base64,")
        part == IF j = 0 THEN rest ELSE SubSeq(rest, 1, j - 1)
    IN  IF i = 0 \/ part = "" THEN text ELSE part

\* OriginalBody with the typeof test left out: every image is decoded.
OriginalBodyImageDecoded(content, fileType) ==
    IF StartsWith(fileType, "image/")
    THEN base64Decode(base64Data(content.value))
    ELSE Body(content)

\* The Body that storeOriginalContent uploads.
OriginalBody(content, fileType) ==
    IF content.type = "string" /\ StartsWith(fileType, "image/")
    THEN base64Decode(base64Data(content.value))
    ELSE Body(content)

storeOriginalContent(p, userId, fileId, content, fileType) ==
    Enter(p, "storeOriginalContent", userId,
          Frame("storeOriginalContent", "Upload", userId, fileId)
            @@ [content |-> content, fileType |-> fileType])

storeOriginalContentUpload(p) ==
    /\ At(p, "storeOriginalContent", "Upload")
    /\ LET s == inv[p]
           loc == getS3Locations(s.userId, s.fileId)
       IN  StoreCall(p, "Upload original_content", TRUE,
                     Return(s, "void"),
                     table,
                     Upload(bucket, loc.originalContent,
                            OriginalBody(s.content, s.fileType), s.fileType),
                     "Failed to store original content")

\* result.ContentType || 'application/octet-stream'
ContentTypeOf(object) ==
    IF object.contentType = "" THEN "application/octet-stream" ELSE object.contentType

\* What getOriginalContent returns for the object read at original_content.
OriginalContentResult(object, forDownload) ==
    LET contentType == ContentTypeOf(object) IN
    IF forDownload
    THEN [data |-> Buffer(object.body), contentType |-> contentType]
    ELSE IF StartsWith(contentType, "image/")
    THEN [ data |-> String("data:" \o contentType \o ";base64,"
                             \o base64Encode(object.body)),
           contentType |-> contentType ]
    ELSE [data |-> String(utf8(object.body)), contentType |-> contentType]

\* Beside its locals a getOriginalContent slot keeps stored, the content and
\* type of a storeOriginalContent of the same work item that returned right
\* before the call (nothing having written to the item in between), and
\* upstream, whether its GetItem or its read of original_content was made
\* to fail.
getOriginalContent(p, userId, fileId, forDownload) ==
    Enter(p, "getOriginalContent", userId,
          Frame("getOriginalContent", "GetItem", userId, fileId)
            @@ [ forDownload |-> forDownload, workItem |-> <<>>,
                 upstream |-> FALSE,
                 stored |->
                    LET last == { q \in Procs :
                                    /\ At(q, "storeOriginalContent", "done")
                                    /\ inv[q].result = "ok"
                                    /\ inv[q].userId = userId
                                    /\ inv[q].fileId = fileId
                                    /\ inv[q].alone }
                    IN  IF last = {} THEN <<>>
                        ELSE LET q == CHOOSE q \in last : TRUE
                             IN  [content |-> inv[q].content,
                                  fileType |-> inv[q].fileType] ])

\* The upload modes for which packed content is served.
ServesPacked(workItem) ==
    /\ "uploadMode" \in DOMAIN workItem
    /\ workItem.uploadMode \in {"MULTIPLE_FILES", "ZIP_FILE"}

\* getOriginalContentGetWorkItem with the forDownload test left out.
getOriginalContentPackedAlways(p) ==
    /\ At(p, "getOriginalContent", "GetItem")
    /\ LET s == inv[p]
           Item == GetItem(table, s.userId, s.fileId)
       IN  \/ /\ inv' = Step(p, Issue(IF Item = <<>>
                                      THEN Throw(s, "Failed to get original content")
                                      ELSE [s EXCEPT !.workItem = Item,
                                                     !.pc = IF ServesPacked(Item)
                                                            THEN "GetPacked"
                                                            ELSE "GetOriginal"],
                                      "GetItem"), FALSE)
              /\ UNCHANGED <<enabled, now, table, bucket, faults, started>>
           \/ /\ faults < MaxFaults
              /\ faults' = faults + 1
              /\ inv' = Step(p, [Throw(Issue(s, "GetItem"), "Failed to get original content")
                                   EXCEPT !.upstream = TRUE], FALSE)
              /\ UNCHANGED <<enabled, now, table, bucket, started>>

\* The awaited getWorkItem, then the choice of source.
getOriginalContentGetWorkItem(p) ==
    /\ At(p, "getOriginalContent", "GetItem")
    /\ LET s == inv[p]
           Item == GetItem(table, s.userId, s.fileId)
       IN  \/ /\ inv' = Step(p, Issue(IF Item = <<>>
                                      THEN Throw(s, "Failed to get original content")
                                      ELSE [s EXCEPT !.workItem = Item,
                                                     !.pc = IF /\ ServesPacked(Item)
                                                               /\ ~s.forDownload
                                                            THEN "GetPacked"
                                                            ELSE "GetOriginal"],
                                      "GetItem"), FALSE)
              /\ UNCHANGED <<enabled, now, table, bucket, faults, started>>
           \/ /\ faults < MaxFaults
              /\ faults' = faults + 1
              /\ inv' = Step(p, [Throw(Issue(s, "GetItem"), "Failed to get original content")
                                   EXCEPT !.upstream = TRUE], FALSE)
              /\ UNCHANGED <<enabled, now, table, bucket, started>>

\* getOriginalContentGetPacked without the inner catch: a failed read of
\* packed_content fails the call.
getOriginalContentPackedOrFail(p) ==
    /\ At(p, "getOriginalContent", "GetPacked")
    /\ LET s == inv[p]
           key == getS3Locations(s.userId, s.fileId).packedContent
       IN  StoreCall(p, "GetObject packed_content", FALSE,
                     IF key \in DOMAIN bucket
                     THEN Return(s, [ data |-> String(utf8(bucket[key].body)),
                                      contentType |-> "text/plain" ])
                     ELSE Throw(s, "Failed to get original content"),
                     table, bucket,
                     "Failed to get original content")

\* The awaited getPackedContent: its GetObject of packed_content.  When it
\* throws (the key is not there, or the read fails) the inner catch logs a
\* warning and the handler goes on to original_content.
getOriginalContentGetPacked(p) ==
    /\ At(p, "getOriginalContent", "GetPacked")
    /\ LET s == inv[p]
           key == getS3Locations(s.userId, s.fileId).packedContent
       IN  \/ /\ inv' = Step(p, Issue(IF key \in DOMAIN bucket
                                      THEN Return(s, [ data |-> String(utf8(bucket[key].body)),
                                                       contentType |-> "text/plain" ])
                                      ELSE [s EXCEPT !.pc = "GetOriginal"],
                                      "GetObject packed_content"), FALSE)
              /\ UNCHANGED <<enabled, now, table, bucket, faults, started>>
           \/ /\ faults < MaxFaults
              /\ faults' = faults + 1
              /\ inv' = Step(p, Issue([s EXCEPT !.pc = "GetOriginal"],
                                      "GetObject packed_content"), FALSE)
              /\ UNCHANGED <<enabled, now, table, bucket, started>>

getOriginalContentGetOriginal(p) ==
    /\ At(p, "getOriginalContent", "GetOriginal")
    /\ LET s == inv[p]
           key == getS3Locations(s.userId, s.fileId).originalContent
       IN  \/ /\ inv' = Step(p, Issue(IF key \in DOMAIN bucket
                                      THEN Return(s, OriginalContentResult(bucket[key],
                                                                           s.forDownload))
                                      ELSE Throw(s, "Failed to get original content"),
                                      "GetObject original_content"), FALSE)
              /\ UNCHANGED <<enabled, now, table, bucket, faults, started>>
           \/ /\ faults < MaxFaults
              /\ faults' = faults + 1
              /\ inv' = Step(p, [Throw(Issue(s, "GetObject original_content"),
                                       "Failed to get original content")
                                   EXCEPT !.upstream = TRUE], FALSE)
              /\ UNCHANGED <<enabled, now, table, bucket, started>>

(***************************************************************************)
(* storeIaCDocument, getIaCDocument                                        *)
(***************************************************************************)
\* getExtensionFromTemplateType with the two tests in the other order.
getExtensionFromTemplateTypeJsonFirst(templateType) ==
    IF includes(templateType, "json") THEN "json"
    ELSE IF includes(templateType, "yaml") THEN "yaml"
    ELSE "tf"

getExtensionFromTemplateType(templateType) ==
    IF includes(templateType, "yaml") THEN "yaml"
    ELSE IF includes(templateType, "json") THEN "json"
    ELSE "tf"

\* An absent templateType is the empty string, which is as falsy.
storeIaCDocument(p, userId, fileId, content, extension, templateType) ==
    Enter(p, "storeIaCDocument", userId,
          Frame("storeIaCDocument", "Upload", userId, fileId)
            @@ [ content |-> content, extension |-> extension,
                 templateType |-> templateType ])

\* The upload names no ContentType.
storeIaCDocumentUpload(p) ==
    /\ At(p, "storeIaCDocument", "Upload")
    /\ LET s == inv[p]
           loc == getS3Locations(s.userId, s.fileId)
       IN  StoreCall(p, "Upload iac_templates", TRUE,
                     IF s.templateType # ""
                     THEN [s EXCEPT !.pc = "UpdateItem"]
                     ELSE Return(s, "void"),
                     table,
                     Upload(bucket, loc.iacDocument \o "." \o s.extension,
                            Body(String(s.content)), ""),
                     "Failed to store IaC document")

\* The awaited updateWorkItem.
storeIaCDocumentUpdateItem(p) ==
    /\ At(p, "storeIaCDocument", "UpdateItem")
    /\ LET s == inv[p]
           sets == SetActions([ vals |-> [ iacGeneratedFileType |-> s.templateType,
                                           lastModified |-> toISOString(now) ],
                                undef |-> {} ])
       IN  SendUpdateItem(p, sets, Return(s, "void"), "Failed to store IaC document")

\* workItem?.iacGeneratedFileType ? getExtensionFromTemplateType(...) : extension
iacGeneratedExtension(workItem, extension) ==
    IF /\ workItem # <<>>
       /\ "iacGeneratedFileType" \in DOMAIN workItem
       /\ workItem.iacGeneratedFileType # ""
    THEN getExtensionFromTemplateType(workItem.iacGeneratedFileType)
    ELSE extension

\* workItem is <<>> when the argument is left out.  Beside its locals the
\* slot keeps key, the key it reads, and stored, the arguments of a
\* storeIaCDocument of the same work item that returned right before the
\* call (nothing having written to the item in between).
getIaCDocument(p, userId, fileId, extension, workItem) ==
    Enter(p, "getIaCDocument", userId,
          Frame("getIaCDocument", "GetObject", userId, fileId)
            @@ [ extension |-> extension, workItem |-> workItem,
                 key |-> getS3Locations(userId, fileId).iacDocument \o "."
                            \o iacGeneratedExtension(workItem, extension),
                 stored |->
                    LET last == { q \in Procs :
                                    /\ At(q, "storeIaCDocument", "done")
                                    /\ inv[q].result = "ok"
                                    /\ inv[q].userId = userId
                                    /\ inv[q].fileId = fileId
                                    /\ inv[q].alone }
                    IN  IF last = {} THEN <<>>
                        ELSE LET q == CHOOSE q \in last : TRUE
                             IN  [ content |-> inv[q].content,
                                   extension |-> inv[q].extension,
                                   templateType |-> inv[q].templateType ] ])

getIaCDocumentGetObject(p) ==
    /\ At(p, "getIaCDocument", "GetObject")
    /\ LET s == inv[p]
       IN  StoreCall(p, "GetObject iac_templates", FALSE,
                     IF s.key \in DOMAIN bucket
                     THEN Return(s, utf8(bucket[s.key].body))
                     ELSE Throw(s, "Failed to get IaC document"),
                     table, bucket,
                     "Failed to get IaC document")

(***************************************************************************)
(* storePackedContent, getPackedContent, storeAnalysisResults, called on   *)
(* their own.                                                              *)
(***************************************************************************)
storePackedContent(p, userId, fileId, content) ==
    Enter(p, "storePackedContent", userId,
          Frame("storePackedContent", "Upload", userId, fileId)
            @@ [content |-> content])

\* storePackedContentUpload writing to the original_content key.
storePackedContentUploadAsOriginal(p) ==
    /\ At(p, "storePackedContent", "Upload")
    /\ LET s == inv[p]
           loc == getS3Locations(s.userId, s.fileId)
       IN  StoreCall(p, "Upload packed_content", TRUE,
                     Return(s, "void"),
                     table,
                     Upload(bucket, loc.originalContent, Body(String(s.content)),
                            "text/plain"),
                     "Failed to store packed content")

storePackedContentUpload(p) ==
    /\ At(p, "storePackedContent", "Upload")
    /\ LET s == inv[p]
           loc == getS3Locations(s.userId, s.fileId)
       IN  StoreCall(p, "Upload packed_content", TRUE,
                     Return(s, "void"),
                     table,
                     Upload(bucket, loc.packedContent, Body(String(s.content)),
                            "text/plain"),
                     "Failed to store packed content")

\* Beside its locals a getPackedContent slot keeps stored, the content of a
\* storePackedContent of the same work item that returned right before the
\* call (nothing having written to the item in between).
getPackedContent(p, userId, fileId) ==
    Enter(p, "getPackedContent", userId,
          Frame("getPackedContent", "GetObject", userId, fileId)
            @@ [ stored |->
                    LET last == { q \in Procs :
                                    /\ At(q, "storePackedContent", "done")
                                    /\ inv[q].result = "ok"
                                    /\ inv[q].userId = userId
                                    /\ inv[q].fileId = fileId
                                    /\ inv[q].alone }
                    IN  IF last = {} THEN <<>>
                        ELSE LET q == CHOOSE q \in last : TRUE
                             IN  [content |-> inv[q].content] ])

getPackedContentGetObject(p) ==
    /\ At(p, "getPackedContent", "GetObject")
    /\ LET s == inv[p]
           key == getS3Locations(s.userId, s.fileId).packedContent
       IN  StoreCall(p, "GetObject packed_content", FALSE,
                     IF key \in DOMAIN bucket
                     THEN Return(s, utf8(bucket[key].body))
                     ELSE Throw(s, "Failed to get packed content"),
                     table, bucket,
                     "Failed to get packed content")

storeAnalysisResults(p, userId, fileId, results) ==
    Enter(p, "storeAnalysisResults", userId,
          Frame("storeAnalysisResults", "Upload", userId, fileId)
            @@ [results |-> results])

storeAnalysisResultsUpload(p) ==
    /\ At(p, "storeAnalysisResults", "Upload")
    /\ LET s == inv[p]
           loc == getS3Locations(s.userId, s.fileId)
       IN  StoreCall(p, "Upload analysis_results.json", TRUE,
                     Return(s, "void"),
                     table,
                     Upload(bucket, loc.analysisResults, JSONstringify(s.results),
                            "application/json"),
                     "Failed to store analysis results")

(***************************************************************************)
(* listWorkItems                                                           *)
(***************************************************************************)
\* The records of the table under one partition key.
Partition(t, userId) == { t[key] : key \in { k \in DOMAIN t : k[1] = userId } }

\* DynamoDB Query with KeyConditionExpression userId = :userId, one request:
\* the items of the partition, or one page of them with a LastEvaluatedKey
\* when they exceed the page.  The page is the first in sort-key order;
\* which records those are is left open here.
Query(t, userId) ==
    LET matching == Partition(t, userId)
    IN  IF Cardinality(matching) <= QueryMaxItems
        THEN { matching }
        ELSE { page \in SUBSET matching : Cardinality(page) = QueryMaxItems }

\* Beside its locals a listWorkItems slot keeps records, the user's records
\* at the call.
listWorkItems(p, userId) ==
    Enter(p, "listWorkItems", userId,
          Frame("listWorkItems", "Query", userId, "")
            @@ [records |-> Partition(table, userId)])

listWorkItemsQuery(p) ==
    /\ At(p, "listWorkItems", "Query")
    /\ \E Items \in Query(table, inv[p].userId) :
          StoreCall(p, "Query", FALSE,
                    Return(inv[p], Items),
                    table, bucket,
                    "Failed to list work items")

(***************************************************************************)
(* createUserIdHash                                                        *)
(***************************************************************************)
\* The white space String.prototype.trim removes, as far as the inputs go.
WhiteSpace == {" ", "\t", "\n", "\r"}

RECURSIVE trimStart(_)
trimStart(s) ==
    IF s # "" /\ SubSeq(s, 1, 1) \in WhiteSpace
    THEN trimStart(SubSeq(s, 2, Len(s)))
    ELSE s

RECURSIVE trimEnd(_)
trimEnd(s) ==
    IF s # "" /\ SubSeq(s, Len(s), Len(s)) \in WhiteSpace
    THEN trimEnd(SubSeq(s, 1, Len(s) - 1))
    ELSE s

trim(s) == trimEnd(trimStart(s))

\* String.prototype.toLowerCase on the letters A to Z.
RECURSIVE toLowerCase(_)
toLowerCase(s) ==
    IF s = "" THEN ""
    ELSE LET c == SubSeq(s, 1, 1)
             lower == IF c \notin WhiteSpace /\ charCode(c) \in 65..90
                      THEN fromCharCode(charCode(c) + 32)
                      ELSE c
         IN  lower \o toLowerCase(SubSeq(s, 2, Len(s)))

\* createUserIdHash hashing the email as given apart from the trimming.
createUserIdHashCaseSensitive(email) ==
    LET normalizedEmail == trim(email)
    IN  createFileIdHash(normalizedEmail)

\* The digest is the one createFileIdHash takes.
createUserIdHash(email) ==
    LET normalizedEmail == toLowerCase(trim(email))
    IN  createFileIdHash(normalizedEmail)

\* A call of createUserIdHash; the slot keeps the email and the value
\* returned.
hashUserId(p, email) ==
    /\ inv' = [inv EXCEPT ![p] =
                 Return(Frame("createUserIdHash", "entry", "", "")
                          @@ [email |-> email],
                        createUserIdHash(email))]
    /\ UNCHANGED <<enabled, now, table, bucket, faults, started>>

(***************************************************************************)
(* The environment.                                                        *)
(***************************************************************************)
\* Time passes.
Tick ==
    /\ now < 10 + MaxTicks
    /\ now' = now + 1
    /\ UNCHANGED <<enabled, table, bucket, inv, faults, started>>

(***************************************************************************)
(* Inputs of the handlers.                                                 *)
(***************************************************************************)
Archives == {"Z1", "Z22", "Zbad"}
FileSets ==
    { <<>>,
      <<[filename |-> "a.tf", buffer |-> "x", mimetype |-> "text/plain"]>>,
      <<[filename |-> "a.tf", buffer |-> "x", mimetype |-> "text/plain"],
        [filename |-> "b.tf", buffer |-> "y", mimetype |-> "text/plain"]>> }

\* The work items the handlers that take a fileId are called on.
Targets == { createFileIdHash("a.tf" \o ToString(t)) : t \in ClockValues }

SupportingDocs ==
    { [fileName |-> "doc.pdf", fileType |-> "application/pdf",
       fileBuffer |-> "D1", description |-> "first"],
      [fileName |-> "doc.pdf", fileType |-> "text/plain",
       fileBuffer |-> "D2", description |-> "second"] }

Updates ==
    { [vals |-> [analysisStatus |-> "IN_PROGRESS", analysisProgress |-> 50],
       undef |-> {}],
      [vals |-> [iacGenerationStatus |-> "COMPLETED"], undef |-> {"analysisStatus"}],
      [vals |-> [analysisStatus |-> "COMPLETED"], undef |-> {}],
      [vals |-> <<>>, undef |-> {"analysisProgress"}],
      [vals |-> <<>>, undef |-> {}] }

(***************************************************************************)
(* Specifications.                                                         *)
(***************************************************************************)
\* The constructor: config.enabled = true, nothing stored, nothing running.
Init ==
    /\ enabled = TRUE
    /\ now = 10
    /\ table = <<>>
    /\ bucket = <<>>
    /\ inv = [p \in Procs |-> Idle]
    /\ faults = 0
    /\ started = 0

createWorkItemSteps ==
    \/ \E p \in Procs : createWorkItemPutItem(p)
    \/ \E p \in Procs : createWorkItemUploadOriginal(p)
    \/ \E p \in Procs : createWorkItemUploadMetadata(p)

deleteWorkItemSteps ==
    \/ \E p \in Procs : deleteWorkItemList(p)
    \/ \E p \in Procs : deleteWorkItemDeleteObjects(p)
    \/ \E p \in Procs : deleteWorkItemDeleteItem(p)

handleZipFileSteps ==
    \/ \E p \in Procs : handleZipFilePutItem(p)
    \/ \E p \in Procs : handleZipFileStoreOriginal(p)
    \/ \E p \in Procs : handleZipFileStorePacked(p)

handleMultipleFilesSteps ==
    \/ \E p \in Procs : handleMultipleFilesPutItem(p)
    \/ \E p \in Procs : handleMultipleFilesStoreOriginal(p)
    \/ \E p \in Procs : handleMultipleFilesStorePacked(p)

storeSupportingDocumentSteps ==
    \/ \E p \in Procs : storeSupportingDocumentUploadBlob(p)
    \/ \E p \in Procs : storeSupportingDocumentUploadSidecar(p)
    \/ \E p \in Procs : storeSupportingDocumentLink(p)

\* No invocation is in flight.
Quiet == \A p \in Procs : Free(p)

createWorkItemCalls ==
    \E p \in Procs, u \in UserIds, i \in SingleUploads :
       createWorkItem(p, u, i.fileName, i.fileType, i.fileBuffer, i.uploadMode)

handleZipFileCalls ==
    \E p \in Procs, u \in UserIds, b \in Archives : handleZipFile(p, u, "a.tf", b)

handleMultipleFilesCalls ==
    \E p \in Procs, u \in UserIds, fs \in FileSets : handleMultipleFiles(p, u, fs)

updateWorkItemCalls ==
    \E p \in Procs, u \in UserIds, f \in Targets, up \in Updates :
       updateWorkItem(p, u, f, up)

\* The service used by a caller that awaits each invocation before the
\* next: the handlers run one at a time.
Next ==
    \/ Quiet /\ createWorkItemCalls
    \/ Quiet /\ handleZipFileCalls
    \/ Quiet /\ handleMultipleFilesCalls
    \/ Quiet /\ updateWorkItemCalls
    \/ Quiet /\ \E p \in Procs, u \in UserIds, f \in Targets : getWorkItem(p, u, f)
    \/ Quiet /\ \E p \in Procs, u \in UserIds, f \in Targets, d \in SupportingDocs :
                   storeSupportingDocument(p, u, f, d.fileName, d.fileType,
                                           d.fileBuffer, d.description)
    \/ Quiet /\ \E p \in Procs, u \in UserIds, f \in Targets : deleteWorkItem(p, u, f)
    \/ createWorkItemSteps
    \/ handleZipFileSteps
    \/ handleMultipleFilesSteps
    \/ \E p \in Procs : updateWorkItemUpdateItem(p)
    \/ \E p \in Procs : getWorkItemGetItem(p)
    \/ storeSupportingDocumentSteps
    \/ deleteWorkItemSteps
    \/ Tick

Spec == Init /\ [][Next]_vars

\* Concurrent uploads: the three ways to create a work item, interleaved at
\* their awaits.
NextUpload ==
    \/ started < MaxUploads /\ createWorkItemCalls
    \/ started < MaxUploads /\ handleZipFileCalls
    \/ started < MaxUploads /\ handleMultipleFilesCalls
    \/ createWorkItemSteps
    \/ handleZipFileSteps
    \/ handleMultipleFilesSteps
    \/ Tick

SpecUpload == Init /\ [][NextUpload]_vars

\* Concurrent updates of work items that createWorkItem made.
NextUpdate ==
    \/ createWorkItemCalls
    \/ updateWorkItemCalls
    \/ createWorkItemSteps
    \/ \E p \in Procs : updateWorkItemUpdateItem(p)
    \/ Tick

SpecUpdate == Init /\ [][NextUpdate]_vars

\* The service configured off (StorageConfig.enabled false), its handlers
\* called one at a time.  Only the steps that a disabled service can reach
\* are listed: every handler's entry, and the PutItem that the two packed
\* uploads get to.
InitDisabled ==
    /\ enabled = FALSE
    /\ now = 10
    /\ table = <<>>
    /\ bucket = <<>>
    /\ inv = [p \in Procs |-> Idle]
    /\ faults = 0
    /\ started = 0

NextDisabled ==
    \/ Quiet /\ createWorkItemCalls
    \/ Quiet /\ handleZipFileCalls
    \/ Quiet /\ handleMultipleFilesCalls
    \/ Quiet /\ updateWorkItemCalls
    \/ Quiet /\ \E p \in Procs, u \in UserIds, f \in Targets : getWorkItem(p, u, f)
    \/ Quiet /\ \E p \in Procs, u \in UserIds, f \in Targets, d \in SupportingDocs :
                   storeSupportingDocument(p, u, f, d.fileName, d.fileType,
                                           d.fileBuffer, d.description)
    \/ Quiet /\ \E p \in Procs, u \in UserIds, f \in Targets : deleteWorkItem(p, u, f)
    \/ \E p \in Procs : handleZipFilePutItem(p)
    \/ \E p \in Procs : handleMultipleFilesPutItem(p)
    \/ Tick

SpecDisabled == InitDisabled /\ [][NextDisabled]_vars

\* Supporting documents stored, relinked and read back, one call at a time.
SupportingDocIds ==
    { createFileIdHash("supporting_" \o f \o "_" \o d.fileName \o "_" \o ToString(t)) :
         f \in Targets, d \in SupportingDocs, t \in ClockValues }

NextDocument ==
    \/ Quiet /\ \E p \in Procs, u \in UserIds :
                   createWorkItem(p, u, "a.tf", "text/plain", "B1", "SINGLE_FILE")
    \/ Quiet /\ \E p \in Procs, u \in UserIds, f \in Targets, d \in SupportingDocs :
                   storeSupportingDocument(p, u, f, d.fileName, d.fileType,
                                           d.fileBuffer, d.description)
    \/ Quiet /\ \E p \in Procs, u \in UserIds, f \in Targets, id \in SupportingDocIds :
                   getSupportingDocument(p, u, f, id)
    \/ createWorkItemSteps
    \/ storeSupportingDocumentSteps
    \/ \E p \in Procs : getSupportingDocumentGetWorkItem(p)
    \/ \E p \in Procs : getSupportingDocumentGetObject(p)
    \/ Tick

SpecDocument == Init /\ [][NextDocument]_vars

\* Deletions, one call at a time, of a work item that createWorkItem has
\* stored and of one on which storeSupportingDocument has then linked a
\* document.
StoredWorkItem ==
    LET userId == "u1"
        fileId == createFileIdHash("a.tf" \o ToString(10))
        loc == getS3Locations(userId, fileId)
        workItem == NewWorkItem(userId, fileId, "a.tf", "text/plain",
                                toISOString(10), "SINGLE_FILE")
    IN  [ table |-> PutItem(<<>>, workItem),
          bucket |-> Upload(Upload(<<>>, loc.originalContent, "B1", "text/plain"),
                            loc.metadata, JSONstringify(workItem), "application/json") ]

StoredWorkItemWithDocument ==
    LET userId == "u1"
        fileId == createFileIdHash("a.tf" \o ToString(10))
        supportingDocId == createFileIdHash("supporting_" \o fileId \o "_doc.pdf_"
                                              \o ToString(10))
        key == supportingDocKey(userId, fileId, supportingDocId)
        metadata == [ userId |-> userId, fileId |-> supportingDocId,
                      mainFileId |-> fileId, fileName |-> "doc.pdf",
                      fileType |-> "application/pdf", uploadDate |-> toISOString(10),
                      lastModified |-> toISOString(10),
                      description |-> "first",
                      type |-> "supporting-document" ]
    IN  [ table |-> UpdateItem(StoredWorkItem.table, userId, fileId,
                               SetActions(linkSupportingDocumentToWorkItem(
                                   supportingDocId, "doc.pdf", "application/pdf",
                                   "first", toISOString(10)))),
          bucket |-> Upload(Upload(StoredWorkItem.bucket, key, "D1", "application/pdf"),
                            key \o "_metadata.json",
                            JSONstringify(metadata), "application/json") ]

InitDelete ==
    /\ enabled = TRUE
    /\ now = 10
    /\ \E stored \in {StoredWorkItem, StoredWorkItemWithDocument} :
          /\ table = stored.table
          /\ bucket = stored.bucket
    /\ inv = [p \in Procs |-> Idle]
    /\ faults = 0
    /\ started = 0

NextDelete ==
    \/ Quiet /\ \E p \in Procs, u \in UserIds, f \in Targets : deleteWorkItem(p, u, f)
    \/ Quiet /\ \E p \in Procs, u \in UserIds, f \in Targets : getWorkItem(p, u, f)
    \/ deleteWorkItemSteps
    \/ \E p \in Procs : getWorkItemGetItem(p)
    \/ Tick

SpecDelete == InitDelete /\ [][NextDelete]_vars

\* Original and packed content stored and read back, one call at a time.
OriginalContents ==
    { [content |-> Buffer("B3"), fileType |-> "text/plain"],
      [content |-> String("tf text"), fileType |-> "text/plain"],
      [content |-> Buffer("PNG"), fileType |-> "image/png"],
      [content |-> String("data:image/png;base64,QUJD"), fileType |-> "image/png"],
      [content |-> String("QUI="), fileType |-> "image/gif"] }

getOriginalContentSteps ==
    \/ \E p \in Procs : getOriginalContentGetWorkItem(p)
    \/ \E p \in Procs : getOriginalContentGetPacked(p)
    \/ \E p \in Procs : getOriginalContentGetOriginal(p)

NextContent ==
    \/ Quiet /\ createWorkItemCalls
    \/ Quiet /\ \E p \in Procs, u \in UserIds : handleZipFile(p, u, "a.tf", "Z1")
    \/ Quiet /\ \E p \in Procs, u \in UserIds, f \in Targets, c \in OriginalContents :
                   storeOriginalContent(p, u, f, c.content, c.fileType)
    \/ Quiet /\ \E p \in Procs, u \in UserIds, f \in Targets, forDownload \in BOOLEAN :
                   getOriginalContent(p, u, f, forDownload)
    \/ createWorkItemSteps
    \/ handleZipFileSteps
    \/ \E p \in Procs : storeOriginalContentUpload(p)
    \/ getOriginalContentSteps
    \/ Tick

SpecContent == Init /\ [][NextContent]_vars

\* Generated templates stored and read back, one call at a time.
IaCDocuments ==
    { [content |-> "T1", extension |-> "yaml", templateType |-> "cloudformation-yaml"],
      [content |-> "T2", extension |-> "json", templateType |-> "cloudformation-json"],
      [content |-> "T3", extension |-> "tf", templateType |-> "terraform"],
      [content |-> "T4", extension |-> "yaml", templateType |-> ""],
      [content |-> "T5", extension |-> "yml", templateType |-> "cloudformation-yaml"],
      [content |-> "T6", extension |-> "json", templateType |-> "json-from-yaml"] }

Extensions == { d.extension : d \in IaCDocuments }

\* The workItem arguments of getIaCDocument: none, or the record as the
\* table holds it.
WorkItemArguments(userId, fileId) ==
    {<<>>, GetItem(table, userId, fileId)}

NextIaC ==
    \/ Quiet /\ \E p \in Procs, u \in UserIds :
                   createWorkItem(p, u, "a.tf", "text/plain", "B1", "SINGLE_FILE")
    \/ Quiet /\ \E p \in Procs, u \in UserIds, f \in Targets, d \in IaCDocuments :
                   storeIaCDocument(p, u, f, d.content, d.extension, d.templateType)
    \/ Quiet /\ \E p \in Procs, u \in UserIds, f \in Targets, extension \in Extensions :
                   \E workItem \in WorkItemArguments(u, f) :
                      getIaCDocument(p, u, f, extension, workItem)
    \/ createWorkItemSteps
    \/ \E p \in Procs : storeIaCDocumentUpload(p)
    \/ \E p \in Procs : storeIaCDocumentUpdateItem(p)
    \/ \E p \in Procs : getIaCDocumentGetObject(p)
    \/ Tick

SpecIaC == Init /\ [][NextIaC]_vars

\* The key layout on its own.  User ids, file ids and supporting-document
\* ids are SHA-256 digests in hexadecimal; four digits stand for the
\* sixty-four.
Digests == {"00a1", "0a10", "a100", "a10a"}
KeyUserIds == {"00a1", "0a10"}
KeyDocIds == {"a100", "a10a"}

\* The keys the service writes for a work item and one supporting document.
KeyLayout(userId, fileId, supportingDocId) ==
    LET s3Locations == getS3Locations(userId, fileId)
        docKey == supportingDocKey(userId, fileId, supportingDocId)
    IN  [ metadata |-> s3Locations.metadata,
          originalContent |-> s3Locations.originalContent,
          analysisResults |-> s3Locations.analysisResults,
          iacDocument |-> s3Locations.iacDocument,
          packedContent |-> s3Locations.packedContent,
          supportingDocumentBlob |-> docKey,
          supportingDocumentSidecar |-> docKey \o "_metadata.json" ]

locations(p, userId, fileId, supportingDocId) ==
    /\ inv' = [inv EXCEPT ![p] =
                 Return(Frame("getS3Locations", "entry", userId, fileId)
                          @@ [supportingDocId |-> supportingDocId],
                        KeyLayout(userId, fileId, supportingDocId))]
    /\ UNCHANGED <<enabled, now, table, bucket, faults, started>>

NextKeys ==
    \E p \in Procs, userId \in KeyUserIds, fileId \in Digests, supportingDocId \in KeyDocIds :
       locations(p, userId, fileId, supportingDocId)

SpecKeys == Init /\ [][NextKeys]_vars

\* Every writer of the bucket and deleteWorkItem, one call at a time.
\* deleteWorkItem takes the fileId its caller hands it: the id of a work
\* item, or the leading part of one.
LeadingParts == { SubSeq(f, 1, Len(f) - 1) : f \in Targets }

NextRoot ==
    \/ Quiet /\ \E p \in Procs, u \in UserIds :
                   createWorkItem(p, u, "a.tf", "text/plain", "B1", "SINGLE_FILE")
    \/ Quiet /\ \E p \in Procs, u \in UserIds : handleZipFile(p, u, "a.tf", "Z1")
    \/ Quiet /\ \E p \in Procs, u \in UserIds :
                   handleMultipleFiles(p, u, <<[filename |-> "a.tf", buffer |-> "x",
                                                mimetype |-> "text/plain"]>>)
    \/ Quiet /\ \E p \in Procs, u \in UserIds, f \in Targets :
                   storeSupportingDocument(p, u, f, "doc.pdf", "application/pdf",
                                           "D1", "first")
    \/ Quiet /\ \E p \in Procs, u \in UserIds, f \in Targets :
                   storeOriginalContent(p, u, f, Buffer("B3"), "text/plain")
    \/ Quiet /\ \E p \in Procs, u \in UserIds, f \in Targets :
                   storePackedContent(p, u, f, "P1")
    \/ Quiet /\ \E p \in Procs, u \in UserIds, f \in Targets :
                   storeAnalysisResults(p, u, f, "R1")
    \/ Quiet /\ \E p \in Procs, u \in UserIds, f \in Targets :
                   storeIaCDocument(p, u, f, "T1", "yaml", "cloudformation-yaml")
    \/ Quiet /\ \E p \in Procs, u \in UserIds, f \in Targets \cup LeadingParts :
                   deleteWorkItem(p, u, f)
    \/ createWorkItemSteps
    \/ handleZipFileSteps
    \/ handleMultipleFilesSteps
    \/ storeSupportingDocumentSteps
    \/ \E p \in Procs : storeOriginalContentUpload(p)
    \/ \E p \in Procs : storePackedContentUpload(p)
    \/ \E p \in Procs : storeAnalysisResultsUpload(p)
    \/ \E p \in Procs : storeIaCDocumentUpload(p)
    \/ \E p \in Procs : storeIaCDocumentUpdateItem(p)
    \/ deleteWorkItemSteps
    \/ Tick

SpecRoot == Init /\ [][NextRoot]_vars

\* Listings, one call at a time, for two users who have stored work items
\* before: the table starts with the records createWorkItem wrote for them.
ListUserIds == {"u1", "u2"}

StoredRecords ==
    LET Record(userId, fileName) ==
            NewWorkItem(userId, createFileIdHash(fileName \o ToString(9)), fileName,
                        "text/plain", toISOString(9), "SINGLE_FILE")
    IN  PutItem(PutItem(PutItem(<<>>, Record("u1", "c.tf")), Record("u1", "d.tf")),
                Record("u2", "c.tf"))

InitList ==
    /\ enabled = TRUE
    /\ now = 10
    /\ table \in {<<>>, StoredRecords}
    /\ bucket = <<>>
    /\ inv = [p \in Procs |-> Idle]
    /\ faults = 0
    /\ started = 0

NextList ==
    \/ Quiet /\ \E p \in Procs, u \in ListUserIds, f \in FileNames :
                   createWorkItem(p, u, f, "text/plain", "B1", "SINGLE_FILE")
    \/ Quiet /\ \E p \in Procs, u \in ListUserIds : listWorkItems(p, u)
    \/ createWorkItemSteps
    \/ \E p \in Procs : listWorkItemsQuery(p)
    \/ Tick

SpecList == InitList /\ [][NextList]_vars

\* Packed content stored and read back, one call at a time, beside the
\* upload and the deletion that also write the key.
PackedContents == {"", "P1", "[a.tf]x"}

NextPacked ==
    \/ Quiet /\ \E p \in Procs, u \in UserIds : handleZipFile(p, u, "a.tf", "Z1")
    \/ Quiet /\ \E p \in Procs, u \in UserIds, f \in Targets, content \in PackedContents :
                   storePackedContent(p, u, f, content)
    \/ Quiet /\ \E p \in Procs, u \in UserIds, f \in Targets : getPackedContent(p, u, f)
    \/ Quiet /\ \E p \in Procs, u \in UserIds, f \in Targets : deleteWorkItem(p, u, f)
    \/ handleZipFileSteps
    \/ \E p \in Procs : storePackedContentUpload(p)
    \/ \E p \in Procs : getPackedContentGetObject(p)
    \/ deleteWorkItemSteps
    \/ Tick

SpecPacked == Init /\ [][NextPacked]_vars

\* createUserIdHash on its own, over emails that differ in case, in the
\* white space around them and in more than that.
Emails ==
    { "a@b.com", "A@B.com ", " a@b.com", "A@b.COM", "\ta@b.com\n", "a @b.com",
      "c@d.org", " C@D.org ", "C@D.ORG\r\n", "", "  " }

NextUser == \E p \in Procs, email \in Emails : hashUserId(p, email)

SpecUser == Init /\ [][NextUser]_vars

\* deleteWorkItem racing the operations that write an object for a work item
\* that createWorkItem has stored: calls are not held back until the running
\* one has finished, so the handlers interleave at their awaits.
InitRace ==
    /\ enabled = TRUE
    /\ now = 10
    /\ table = StoredWorkItem.table
    /\ bucket = StoredWorkItem.bucket
    /\ inv = [p \in Procs |-> Idle]
    /\ faults = 0
    /\ started = 0

\* The id of the stored work item.
RaceTargets == { k[2] : k \in DOMAIN StoredWorkItem.table }

NextRace ==
    \/ \E p \in Procs, u \in UserIds, f \in RaceTargets : deleteWorkItem(p, u, f)
    \/ \E p \in Procs, u \in UserIds, f \in RaceTargets :
          storeAnalysisResults(p, u, f, "R1")
    \/ \E p \in Procs, u \in UserIds, f \in RaceTargets :
          storeIaCDocument(p, u, f, "T1", "yaml", "cloudformation-yaml")
    \/ \E p \in Procs, u \in UserIds, f \in RaceTargets : storePackedContent(p, u, f, "P1")
    \/ \E p \in Procs, u \in UserIds, f \in RaceTargets :
          storeOriginalContent(p, u, f, Buffer("B3"), "text/plain")
    \/ \E p \in Procs, u \in UserIds, f \in RaceTargets :
          storeSupportingDocument(p, u, f, "doc.pdf", "application/pdf", "D1", "first")
    \/ deleteWorkItemSteps
    \/ \E p \in Procs : storeAnalysisResultsUpload(p)
    \/ \E p \in Procs : storeIaCDocumentUpload(p)
    \/ \E p \in Procs : storeIaCDocumentUpdateItem(p)
    \/ \E p \in Procs : storePackedContentUpload(p)
    \/ \E p \in Procs : storeOriginalContentUpload(p)
    \/ storeSupportingDocumentSteps
    \/ Tick

SpecRace == InitRace /\ [][NextRace]_vars

\* Status updates of a work item that createWorkItem has made, one call at a
\* time: each track set to each status, to a string that is no status, and
\* with the other track carried as undefined.
StatusTracks == {"analysisStatus", "iacGenerationStatus"}
Statuses == {"NOT_STARTED", "IN_PROGRESS", "COMPLETED", "FAILED", "PAUSED"}

StatusUpdates ==
    UNION { { [vals |-> (t :> status), undef |-> {}],
              [vals |-> (t :> status), undef |-> StatusTracks \ {t}] } :
            t \in StatusTracks, status \in Statuses }

NextStatus ==
    \/ Quiet /\ \E p \in Procs, u \in UserIds :
                   createWorkItem(p, u, "a.tf", "text/plain", "B1", "SINGLE_FILE")
    \/ Quiet /\ \E p \in Procs, u \in UserIds, f \in Targets, up \in StatusUpdates :
                   updateWorkItem(p, u, f, up)
    \/ createWorkItemSteps
    \/ \E p \in Procs : updateWorkItemUpdateItem(p)
    \/ Tick

SpecStatus == Init /\ [][NextStatus]_vars

(***************************************************************************)
(* Properties.                                                             *)
(***************************************************************************)
Last(seq) == seq[Len(seq)]
Range(seq) == { seq[i] : i \in DOMAIN seq }

\* The object at key in the bucket b, or nothing.
ObjectAt(b, key) == IF key \in DOMAIN b THEN b[key] ELSE <<>>

\* Slot p holds a finished invocation of op.
Done(p, op) == At(p, op, "done")
Succeeded(p, op) == Done(p, op) /\ inv[p].result = "ok"

\* C1: after deleteWorkItem has returned successfully, nothing else having
\* written to the work item meanwhile, the bucket holds no key under
\* {userId}/{fileId} and the table holds no record for (userId, fileId),
\* however many objects were under that root.
C1_DeleteLeavesNothingUnderRoot ==
    \A p \in Procs :
       (Succeeded(p, "deleteWorkItem") /\ inv[p].alone) =>
          /\ DOMAIN Under(bucket, inv[p].userId \o "/" \o inv[p].fileId) = {}
          /\ GetItem(table, inv[p].userId, inv[p].fileId) = <<>>

Creations == {"createWorkItem", "handleZipFile", "handleMultipleFiles"}

C4_CreationsReturnDistinctFileIds ==
    \A p, q \in Procs :
       (/\ p # q
        /\ inv[p].op \in Creations /\ Succeeded(p, inv[p].op)
        /\ inv[q].op \in Creations /\ Succeeded(q, inv[q].op)
        /\ inv[p].userId = inv[q].userId)
       => inv[p].ret.fileId # inv[q].ret.fileId

\* C5: when createWorkItem has returned successfully (nothing else having
\* written to the work item meanwhile), the table holds the returned record
\* for (userId, fileId), with both statuses NOT_STARTED, both progress fields
\* 0 and s3Prefix {userId}/{fileId}; the bucket holds the uploaded bytes with
\* the given content type at original_content and the record, as JSON, at
\* metadata.json; the writes were issued in the order record, original
\* content, snapshot.
CreateWrites == <<"PutItem", "Upload original_content", "Upload metadata.json">>

C5_CreateWorkItemPostcondition ==
    \A p \in Procs :
       (Succeeded(p, "createWorkItem") /\ inv[p].alone) =>
          LET s == inv[p]
              loc == getS3Locations(s.userId, s.fileId)
              item == GetItem(table, s.userId, s.fileId)
          IN  /\ item # <<>>
              /\ item = s.ret
              /\ item.userId = s.userId /\ item.fileId = s.fileId
              /\ item.analysisStatus = "NOT_STARTED"
              /\ item.iacGenerationStatus = "NOT_STARTED"
              /\ item.analysisProgress = 0
              /\ item.iacGenerationProgress = 0
              /\ item.s3Prefix = s.userId \o "/" \o s.fileId
              /\ ObjectAt(bucket, loc.originalContent) =
                    [body |-> s.fileBuffer, contentType |-> s.fileType]
              /\ ObjectAt(bucket, loc.metadata) =
                    [body |-> JSONstringify(item), contentType |-> "application/json"]
              /\ s.calls = CreateWrites

\* A createWorkItem of an image that has returned.
C5_CreateReturned ==
    \E p \in Procs :
       /\ Succeeded(p, "createWorkItem")
       /\ inv[p].alone
       /\ inv[p].fileType = "image/png"
       /\ GetItem(table, inv[p].userId, inv[p].fileId) = inv[p].ret

\* C6: a createWorkItem one of whose three writes failed has failed with
\* "Failed to create work item" and has issued nothing after the failed
\* write: the writes before it are in place, the failed one and the ones
\* after it have changed nothing.  In particular, after a failed
\* original-content write the record is in the table and original_content
\* is as it was.
C6_FailedCreateKeepsEarlierWrites ==
    \A p \in Procs :
       (Done(p, "createWorkItem") /\ inv[p].result = "fail" /\ inv[p].calls # <<>>) =>
          LET s == inv[p]
              n == Len(s.calls)
              loc == getS3Locations(s.userId, s.fileId)
          IN  /\ s.error = "Failed to create work item"
              /\ n <= 3
              /\ s.calls = SubSeq(CreateWrites, 1, n)
              /\ s.alone =>
                    /\ GetItem(table, s.userId, s.fileId) =
                          IF n >= 2 THEN s.workItem ELSE s.pre.item
                    /\ ObjectAt(bucket, loc.originalContent) =
                          IF n = 3
                          THEN [body |-> s.fileBuffer, contentType |-> s.fileType]
                          ELSE ObjectAt(s.pre.objects, loc.originalContent)
                    /\ ObjectAt(bucket, loc.metadata) =
                          ObjectAt(s.pre.objects, loc.metadata)

\* A createWorkItem of a new work item whose original-content write failed:
\* the record is there, the content is not.
C6_OriginalContentWriteFailed ==
    \E p \in Procs :
       /\ Done(p, "createWorkItem")
       /\ inv[p].result = "fail"
       /\ inv[p].calls = <<"PutItem", "Upload original_content">>
       /\ inv[p].pre.item = <<>>
       /\ GetItem(table, inv[p].userId, inv[p].fileId) = inv[p].workItem
       /\ getS3Locations(inv[p].userId, inv[p].fileId).originalContent \notin DOMAIN bucket

\* The archive a packed upload stores as original content: the uploaded zip,
\* or the zip made from the uploaded files.
ArchiveOf(s) ==
    IF s.op = "handleZipFile" THEN s.buffer
    ELSE createZipFromFiles(s.files).zipBuffer

PackedUploads == {"handleZipFile", "handleMultipleFiles"}
PackedWrites == <<"PutItem", "Upload original_content", "Upload packed_content">>

\* The record, archive and packed text of a packed upload that has returned.
PackedUploadStored(s) ==
    LET loc == getS3Locations(s.userId, s.fileId)
        item == GetItem(table, s.userId, s.fileId)
    IN  /\ item # <<>>
        /\ item = s.workItem
        /\ item.fileId = s.ret.fileId
        /\ ObjectAt(bucket, loc.originalContent) =
              [body |-> ArchiveOf(s), contentType |-> "application/zip"]
        /\ ObjectAt(bucket, loc.packedContent) =
              [body |-> s.packedProject.packedContent, contentType |-> "text/plain"]

\* C7 as stated: when handleZipFile or handleMultipleFiles has returned
\* successfully the record exists, original_content holds the archive as
\* application/zip, metadata.json holds the record and packed_content holds
\* the packed text.
C7_PackedUploadWritesSnapshot ==
    \A p \in Procs :
       (inv[p].op \in PackedUploads /\ Succeeded(p, inv[p].op) /\ inv[p].alone) =>
          LET s == inv[p]
              loc == getS3Locations(s.userId, s.fileId)
          IN  /\ PackedUploadStored(s)
              /\ ObjectAt(bucket, loc.metadata) =
                    [ body |-> JSONstringify(GetItem(table, s.userId, s.fileId)),
                      contentType |-> "application/json" ]

\* C7: when handleZipFile or handleMultipleFiles has returned successfully
\* the record exists, original_content holds the archive as application/zip
\* and packed_content holds the packed text as text/plain; the writes were
\* the record, the original content and the packed content, in that order,
\* and metadata.json is as it was before the upload: no snapshot is written.
C7_PackedUploadPostcondition ==
    \A p \in Procs :
       (inv[p].op \in PackedUploads /\ Succeeded(p, inv[p].op) /\ inv[p].alone) =>
          LET s == inv[p]
              loc == getS3Locations(s.userId, s.fileId)
          IN  /\ PackedUploadStored(s)
              /\ s.calls = PackedWrites
              /\ ObjectAt(bucket, loc.metadata) = ObjectAt(s.pre.objects, loc.metadata)

\* A handleMultipleFiles of two files, for a new work item, that has returned.
C7_MultipleFilesStored ==
    \E p \in Procs :
       /\ Succeeded(p, "handleMultipleFiles")
       /\ inv[p].alone
       /\ Len(inv[p].files) = 2
       /\ inv[p].pre.item = <<>>
       /\ PackedUploadStored(inv[p])
       /\ getS3Locations(inv[p].userId, inv[p].fileId).metadata \notin DOMAIN bucket

\* C8: the UpdateItem of an updateWorkItem on an existing record, when the
\* store has not been made to fail, succeeds for every partial: it returns
\* the record as it is afterwards, in which exactly the fields the partial
\* gives a value have that value and every other attribute is as before, and
\* it leaves every other record alone.
C8_UpdateChangesExactlyTheGivenFields ==
    [][ \A p \in Procs :
          (/\ At(p, "updateWorkItem", "UpdateItem")
           /\ inv'[p].pc = "done"
           /\ <<inv[p].userId, inv[p].fileId>> \in DOMAIN table
           /\ faults' = faults)
          => LET s == inv[p]
                 key == <<s.userId, s.fileId>>
                 old == table[key]
                 given == { k \in DOMAIN s.updates.vals : k \notin s.updates.undef }
             IN  /\ inv'[p].result = "ok"
                 /\ DOMAIN table' = DOMAIN table
                 /\ inv'[p].ret = table'[key]
                 /\ DOMAIN table'[key] = DOMAIN old \cup given
                 /\ \A k \in given : table'[key][k] = s.updates.vals[k]
                 /\ \A k \in DOMAIN old \ given : table'[key][k] = old[k]
                 /\ \A o \in DOMAIN table \ {key} : table'[o] = table[o]
      ]_vars

\* Two finished updateWorkItem calls on one existing work item, q's
\* UpdateItem applied right after p's, and nothing applied since.
AppliedInTurn(p, q) ==
    /\ p # q
    /\ Succeeded(p, "updateWorkItem")
    /\ Succeeded(q, "updateWorkItem")
    /\ inv[p].userId = inv[q].userId
    /\ inv[p].fileId = inv[q].fileId
    /\ inv[p].before # <<>>
    /\ inv[q].before = inv[p].ret
    /\ GetItem(table, inv[q].userId, inv[q].fileId) = inv[q].ret

\* C9: of two updateWorkItem calls on the same work item, in whichever order
\* their store updates were applied, the record ends with every field of the
\* later one at its value, every field only the earlier one gave at the
\* earlier one's value (so with both calls' values when their fields are
\* disjoint), and every other attribute as it was before the two.
C9_ConcurrentUpdatesMerge ==
    \A p, q \in Procs :
       AppliedInTurn(p, q) =>
          LET first == SetActions(inv[p].updates)
              last == SetActions(inv[q].updates)
              start == inv[p].before
              final == GetItem(table, inv[q].userId, inv[q].fileId)
          IN  /\ DOMAIN final = DOMAIN start \cup DOMAIN first \cup DOMAIN last
              /\ \A k \in DOMAIN last : final[k] = last[k]
              /\ \A k \in DOMAIN first \ DOMAIN last : final[k] = first[k]
              /\ \A k \in DOMAIN start \ (DOMAIN first \cup DOMAIN last) :
                    final[k] = start[k]

\* Two updateWorkItem calls with disjoint fields, in flight together, both
\* applied.
C9_DisjointUpdatesOverlapped ==
    \E p, q \in Procs :
       /\ AppliedInTurn(p, q)
       /\ inv[p].overlap
       /\ DOMAIN SetActions(inv[p].updates) # {}
       /\ DOMAIN SetActions(inv[q].updates) # {}
       /\ DOMAIN SetActions(inv[p].updates) \cap DOMAIN SetActions(inv[q].updates) = {}

\* C10: after storeSupportingDocument has returned id D for an existing work
\* item, no update having been applied to that item since, the record that
\* getWorkItem reads has supportingDocumentAdded TRUE, supportingDocumentId D
\* and the name, type and description passed to that call.
C10_LinkFieldsShown ==
    \A p \in Procs :
       (/\ Succeeded(p, "storeSupportingDocument")
        /\ inv[p].alone
        /\ inv[p].pre.item # <<>>)
       => LET s == inv[p]
              Item == GetItem(table, s.userId, s.fileId)
          IN  /\ Item # <<>>
              /\ { "supportingDocumentAdded", "supportingDocumentId",
                   "supportingDocumentName", "supportingDocumentType",
                   "supportingDocumentDescription" } \subseteq DOMAIN Item
              /\ Item.supportingDocumentAdded = TRUE
              /\ Item.supportingDocumentId = s.ret
              /\ Item.supportingDocumentName = s.fileName
              /\ Item.supportingDocumentType = s.fileType
              /\ Item.supportingDocumentDescription = s.description

\* A storeSupportingDocument on a stored work item that has returned its id.
C10_SupportingDocumentLinked ==
    \E p \in Procs :
       /\ Succeeded(p, "storeSupportingDocument")
       /\ inv[p].alone
       /\ inv[p].pre.item # <<>>
       /\ "supportingDocumentId" \notin DOMAIN inv[p].pre.item
       /\ GetItem(table, inv[p].userId, inv[p].fileId).supportingDocumentId = inv[p].ret

\* C11: getSupportingDocument issues the GetObject of a supporting document
\* only when the record it read exists, has supportingDocumentAdded TRUE and
\* a supportingDocumentId, and that id is the requested one; with no write
\* to the work item in between, the id read is the one the record links, so
\* the document returned is the linked one, never one a later link replaced.
C11_BlobReadOnlyWhenLinked ==
    \A p \in Procs :
       (/\ inv[p].op = "getSupportingDocument"
        /\ "GetObject supporting_documents/id" \in Range(inv[p].calls))
       => LET s == inv[p]
              Item == GetItem(table, s.userId, s.fileId)
          IN  /\ s.calls = <<"GetItem", "GetObject supporting_documents/id">>
              /\ s.workItem # <<>>
              /\ {"supportingDocumentId", "supportingDocumentAdded"}
                    \subseteq DOMAIN s.workItem
              /\ s.workItem.supportingDocumentAdded = TRUE
              /\ s.workItem.supportingDocumentId = s.supportingDocId
              /\ s.alone =>
                    /\ Item = s.workItem
                    /\ Succeeded(p, "getSupportingDocument") =>
                          s.ret.data =
                             bucket[supportingDocKey(s.userId, s.fileId,
                                                     Item.supportingDocumentId)].body

\* A getSupportingDocument that returned the linked document of a work item
\* on which an earlier document, still in the bucket, had been linked before.
C11_LinkedDocumentReturned ==
    \E p \in Procs :
       /\ Succeeded(p, "getSupportingDocument")
       /\ inv[p].alone
       /\ \E id \in SupportingDocIds \ {inv[p].supportingDocId} :
             supportingDocKey(inv[p].userId, inv[p].fileId, id) \in DOMAIN bucket

\* C12: a getSupportingDocument that failed because the requested id is not
\* the one linked on the record reports an error of its own, not the one it
\* reports for a missing record or document or for a failed store call.
C12_MismatchIsDistinguishable ==
    \A p \in Procs :
       (/\ Done(p, "getSupportingDocument")
        /\ inv[p].result = "fail"
        /\ inv[p].logged = "Supporting document ID does not match the work item record")
       => inv[p].error # "Failed to get supporting document"

\* C13: a getWorkItem that failed because the table has no record for
\* (userId, fileId), no store call having failed, reports an error other
\* than the one it reports when the GetItem itself fails.
C13_NotFoundIsDistinguishable ==
    \A p \in Procs :
       (/\ Done(p, "getWorkItem")
        /\ inv[p].result = "fail"
        /\ inv[p].calls = <<"GetItem">>
        /\ faults = 0
        /\ GetItem(table, inv[p].userId, inv[p].fileId) = <<>>)
       => inv[p].error # "Failed to get work item"

\* C14: a deleteWorkItem that follows a successful deleteWorkItem of the same
\* work item, nothing having written to it in between and no store call
\* failing, finds no objects, sends no DeleteObjects, returns successfully
\* and leaves the table and the bucket as they were.
C14_SecondDeleteChangesNothing ==
    \A p \in Procs :
       (/\ Done(p, "deleteWorkItem")
        /\ inv[p].retry
        /\ inv[p].alone
        /\ faults = 0)
       => /\ inv[p].result = "ok"
          /\ inv[p].listed = {}
          /\ inv[p].calls = <<"ListObjectsV2", "DeleteItem">>
          /\ table = inv[p].stores.table
          /\ bucket = inv[p].stores.bucket

\* The keys of the work item a slot is about.
LocationsOf(p) == getS3Locations(inv[p].userId, inv[p].fileId)

\* The work item had a record in MULTIPLE_FILES or ZIP_FILE mode when the
\* call in slot p was made.
PackedModeAtCall(p) ==
    /\ inv[p].pre.item # <<>>
    /\ ServesPacked(inv[p].pre.item)

\* C15: a getOriginalContent with forDownload = false of a work item in
\* MULTIPLE_FILES or ZIP_FILE mode whose packed_content key is missing and
\* whose original_content key is present, neither its record read nor its
\* read of original_content being made to fail, returns successfully what
\* it read at original_content.
C15_FallsBackToOriginalContent ==
    \A p \in Procs :
       (/\ Done(p, "getOriginalContent")
        /\ ~inv[p].forDownload
        /\ PackedModeAtCall(p)
        /\ LocationsOf(p).packedContent \notin DOMAIN inv[p].pre.objects
        /\ LocationsOf(p).originalContent \in DOMAIN inv[p].pre.objects
        /\ ~inv[p].upstream)
       => /\ inv[p].result = "ok"
          /\ inv[p].calls = <<"GetItem", "GetObject packed_content",
                              "GetObject original_content">>
          /\ LET object == inv[p].pre.objects[LocationsOf(p).originalContent]
             IN  /\ inv[p].ret.contentType = object.contentType
                 /\ inv[p].ret.data.type = "string"
                 /\ IF StartsWith(object.contentType, "image/")
                    THEN base64Decode(base64Data(inv[p].ret.data.value)) = object.body
                    ELSE inv[p].ret.data.value = object.body

\* A ZIP_FILE or MULTIPLE_FILES work item without packed content was read
\* for display and the call returned.
C15_FallbackTaken ==
    \E p \in Procs :
       /\ Succeeded(p, "getOriginalContent")
       /\ ~inv[p].forDownload
       /\ PackedModeAtCall(p)
       /\ LocationsOf(p).packedContent \notin DOMAIN inv[p].pre.objects
       /\ Len(inv[p].calls) = 3

\* C16: a getOriginalContent with forDownload = true never reads
\* packed_content and, when it returns, returns the bytes and the content
\* type stored at original_content, whatever the upload mode; with
\* forDownload = false, for a work item in MULTIPLE_FILES or ZIP_FILE mode
\* whose packed_content exists, no store call failing, it returns the packed
\* content as text/plain; for a work item in SINGLE_FILE mode it never reads
\* packed_content.
C16_SourceSelectedByMode ==
    \A p \in Procs :
       Done(p, "getOriginalContent") =>
          /\ inv[p].forDownload =>
                /\ "GetObject packed_content" \notin Range(inv[p].calls)
                /\ inv[p].result = "ok" =>
                      LET object == inv[p].pre.objects[LocationsOf(p).originalContent]
                      IN  inv[p].ret = [ data |-> Buffer(object.body),
                                         contentType |-> object.contentType ]
          /\ (/\ ~inv[p].forDownload
              /\ PackedModeAtCall(p)
              /\ LocationsOf(p).packedContent \in DOMAIN inv[p].pre.objects
              /\ faults = 0)
             => /\ inv[p].result = "ok"
                /\ inv[p].ret =
                     [ data |-> String(inv[p].pre.objects[LocationsOf(p).packedContent].body),
                       contentType |-> "text/plain" ]
          /\ (/\ inv[p].pre.item # <<>>
              /\ inv[p].pre.item.uploadMode = "SINGLE_FILE")
             => "GetObject packed_content" \notin Range(inv[p].calls)

\* A work item with packed content was downloaded.
C16_PackedItemDownloaded ==
    \E p \in Procs :
       /\ Succeeded(p, "getOriginalContent")
       /\ inv[p].forDownload
       /\ PackedModeAtCall(p)
       /\ LocationsOf(p).packedContent \in DOMAIN inv[p].pre.objects

\* A getOriginalContent for download returned, a storeOriginalContent of the
\* same work item having returned right before it.
RoundTrips(p) ==
    /\ Succeeded(p, "getOriginalContent")
    /\ inv[p].forDownload
    /\ inv[p].stored # <<>>

\* C17: storeOriginalContent followed at once by getOriginalContent with
\* forDownload = true returns the bytes of the content that was stored and
\* the content type it was stored with, whatever the content and the type.
C17_RoundTripByteIdentical ==
    \A p \in Procs :
       RoundTrips(p) =>
          /\ inv[p].ret.contentType = inv[p].stored.fileType
          /\ inv[p].ret.data = Buffer(Body(inv[p].stored.content))

\* C17, amended: the content type returned is the one stored; the bytes
\* returned are those of the content when it is a Buffer or its type does
\* not start with image/, and the base64 decoding of the text between the
\* first ";base64," and the next (of the whole text when there is no
\* ";base64," or nothing follows it) when it is a string whose type starts
\* with image/.
C17_RoundTripUpToImageDecoding ==
    \A p \in Procs :
       RoundTrips(p) =>
          LET content == inv[p].stored.content
              fileType == inv[p].stored.fileType
          IN  /\ inv[p].ret.contentType = fileType
              /\ inv[p].ret.data.type = "Buffer"
              /\ IF content.type = "string" /\ StartsWith(fileType, "image/")
                 THEN inv[p].ret.data.value = base64Decode(base64Data(content.value))
                 ELSE inv[p].ret.data.value = content.value

\* An image given as a data URL was stored and downloaded.
C17_DataUrlRoundTrip ==
    \E p \in Procs :
       /\ RoundTrips(p)
       /\ inv[p].stored.content.type = "string"
       /\ StartsWith(inv[p].stored.fileType, "image/")
       /\ includes(inv[p].stored.content.value, ";base64,")

\* C18: a getIaCDocument that follows a successful storeIaCDocument of the
\* same work item, called with the extension that was stored and with the
\* work item as the store left it, no store call failing, returns the
\* content that was stored, whatever the extension and the template type.
C18_IaCDocumentRoundTrip ==
    \A p \in Procs :
       (/\ Done(p, "getIaCDocument")
        /\ inv[p].stored # <<>>
        /\ inv[p].extension = inv[p].stored.extension
        /\ inv[p].workItem = inv[p].pre.item
        /\ faults = 0)
       => /\ inv[p].result = "ok"
          /\ inv[p].ret = inv[p].stored.content

\* C19: getIaCDocument reads {userId}/{fileId}/iac_templates/
\* generated_template.{ext}, where ext is yaml, else json, else tf as the
\* iacGeneratedFileType of the work item passed contains yaml, else json,
\* else neither, whatever the extension argument, and is the extension
\* argument when no work item with that field is passed.
C19_IaCDocumentKey ==
    \A p \in Procs :
       (Done(p, "getIaCDocument") /\ inv[p].calls # <<>>) =>
          LET workItem == inv[p].workItem
              ext == IF workItem # <<>> /\ "iacGeneratedFileType" \in DOMAIN workItem
                     THEN IF includes(workItem.iacGeneratedFileType, "yaml") THEN "yaml"
                          ELSE IF includes(workItem.iacGeneratedFileType, "json") THEN "json"
                          ELSE "tf"
                     ELSE inv[p].extension
          IN  /\ inv[p].calls = <<"GetObject iac_templates">>
              /\ inv[p].key = inv[p].userId \o "/" \o inv[p].fileId
                                 \o "/iac_templates/generated_template." \o ext

\* A work item recording a type that names both yaml and json was passed
\* with an extension argument other than yaml.
C19_RecordedTypeTakesPrecedence ==
    \E p \in Procs :
       /\ Done(p, "getIaCDocument")
       /\ inv[p].calls # <<>>
       /\ inv[p].workItem # <<>>
       /\ "iacGeneratedFileType" \in DOMAIN inv[p].workItem
       /\ includes(inv[p].workItem.iacGeneratedFileType, "yaml")
       /\ includes(inv[p].workItem.iacGeneratedFileType, "json")
       /\ inv[p].extension # "yaml"

\* C20: the key layout of one (userId, fileId) pair is the same whenever it
\* is computed; the layouts of two distinct pairs have no key in common; and
\* within one layout the keys of metadata, original content, analysis
\* results, IaC document, packed content, supporting-document blob and
\* supporting-document sidecar are seven distinct keys.
C20_KeyLayoutInjective ==
    \A p, q \in Procs :
       (Succeeded(p, "getS3Locations") /\ Succeeded(q, "getS3Locations")) =>
          LET a == inv[p]
              b == inv[q]
              samePair == a.userId = b.userId /\ a.fileId = b.fileId
          IN  /\ (samePair /\ a.supportingDocId = b.supportingDocId) => a.ret = b.ret
              /\ samePair =>
                    \A k \in DOMAIN a.ret \ {"supportingDocumentBlob",
                                             "supportingDocumentSidecar"} :
                       a.ret[k] = b.ret[k]
              /\ ~samePair => Range(a.ret) \cap Range(b.ret) = {}
              /\ Cardinality(DOMAIN a.ret) = 7
              /\ Cardinality(Range(a.ret)) = 7

\* The layouts of two pairs with the same file id and different user ids
\* were computed.
C20_TwoLayouts ==
    /\ Succeeded(1, "getS3Locations")
    /\ Succeeded(2, "getS3Locations")
    /\ inv[1].userId # inv[2].userId
    /\ inv[1].fileId = inv[2].fileId
    /\ inv[1].supportingDocId = inv[2].supportingDocId

\* The invocation in slot p issues a store call in this step.
Acts(p) ==
    /\ inv[p].pc \notin {"idle", "done"}
    /\ inv'[p].op = inv[p].op
    /\ Len(inv'[p].calls) = Len(inv[p].calls) + 1

\* The storage root of the work item a slot is about, as a key prefix.
RootOf(p) == inv[p].userId \o "/" \o inv[p].fileId \o "/"

\* C21: every key a step writes starts with "{userId}/{fileId}/" of the
\* invocation that takes the step, and every key a step removes is removed
\* by a deleteWorkItem and starts with "{userId}/{fileId}/" of that
\* deleteWorkItem: it is no key of another work item.
C21_KeysUnderRoot ==
    [][ /\ \A k \in DOMAIN bucket' :
              (k \notin DOMAIN bucket \/ bucket'[k] # bucket[k]) =>
                 \E p \in Procs : Acts(p) /\ StartsWith(k, RootOf(p))
        /\ \A k \in DOMAIN bucket \ DOMAIN bucket' :
              \E p \in Procs : /\ Acts(p)
                               /\ inv[p].op = "deleteWorkItem"
                               /\ StartsWith(k, RootOf(p)) ]_vars

\* The record of the work item linked a supporting document when the
\* storeSupportingDocument in slot p was called.
Relinks(p) ==
    /\ inv[p].pre.item # <<>>
    /\ "supportingDocumentId" \in DOMAIN inv[p].pre.item

\* C22: a storeSupportingDocument never removes an object of the work item;
\* when it returns D2 for a work item whose record linked D1, nothing else
\* having written to the item, the record's link fields (id, name, type,
\* description, added flag) are those of this call and the blob and the
\* sidecar of D1 are still in the bucket, as they were if D1 is not D2.
C22_RelinkKeepsSupersededDocument ==
    \A p \in Procs :
       (Done(p, "storeSupportingDocument") /\ inv[p].alone /\ inv[p].calls # <<>>) =>
          LET s == inv[p]
              Item == GetItem(table, s.userId, s.fileId)
          IN  /\ DOMAIN s.pre.objects \subseteq DOMAIN bucket
              /\ (s.result = "ok" /\ Relinks(p)) =>
                    LET D1 == s.pre.item.supportingDocumentId
                        blob == supportingDocKey(s.userId, s.fileId, D1)
                        sidecar == blob \o "_metadata.json"
                    IN  /\ Item.supportingDocumentId = s.ret
                        /\ Item.supportingDocumentAdded = TRUE
                        /\ Item.supportingDocumentName = s.fileName
                        /\ Item.supportingDocumentType = s.fileType
                        /\ Item.supportingDocumentDescription = s.description
                        /\ {blob, sidecar} \subseteq DOMAIN bucket
                        /\ D1 # s.ret =>
                              /\ bucket[blob] = s.pre.objects[blob]
                              /\ bucket[sidecar] = s.pre.objects[sidecar]

\* A second document, of another type and description, was linked on a work
\* item that linked one.
C22_SecondDocumentLinked ==
    \E p \in Procs :
       /\ Succeeded(p, "storeSupportingDocument")
       /\ inv[p].alone
       /\ Relinks(p)
       /\ inv[p].pre.item.supportingDocumentId # inv[p].ret
       /\ inv[p].pre.item.supportingDocumentType # inv[p].fileType

C24_PackingFailureWritesNothing ==
    [][ \A p \in Procs :
           (/\ inv'[p] # inv[p]
            /\ inv'[p].op \in PackedUploads
            /\ inv'[p].pc = "done"
            /\ inv'[p].result = "fail"
            /\ inv'[p].calls = <<>>)
           => /\ table' = table
              /\ bucket' = bucket
              /\ \E prefix \in {"Failed to process zip file: ",
                                "Failed to process multiple files: "} :
                    /\ StartsWith(inv'[p].error, prefix)
                    /\ Len(inv'[p].error) > Len(prefix) ]_vars

\* A packed upload has failed in packing, after an earlier upload was stored.
C24_PackingFailed ==
    \E p \in Procs :
       /\ inv[p].op \in PackedUploads
       /\ inv[p].pc = "done"
       /\ inv[p].result = "fail"
       /\ inv[p].calls = <<>>
       /\ table # <<>>
       /\ bucket # <<>>

\* C25: a listWorkItems that returns, returns the records of the table
\* whose partition key is its userId, all of them and no others, however
\* many there are.
C25_ListReturnsAllOfTheUser ==
    \A p \in Procs :
       Succeeded(p, "listWorkItems") =>
          /\ inv[p].ret = inv[p].records
          /\ \A item \in inv[p].ret : item.userId = inv[p].userId

\* C26: a getPackedContent that follows a successful storePackedContent of
\* the same work item, nothing having written to or deleted from the item in
\* between, returns the string that was stored whenever it returns, and
\* returns when no store call fails.
C26_PackedContentRoundTrip ==
    \A p \in Procs :
       (Done(p, "getPackedContent") /\ inv[p].calls # <<>> /\ inv[p].stored # <<>>) =>
          /\ inv[p].result = "ok" => inv[p].ret = inv[p].stored.content
          /\ faults = 0 => inv[p].result = "ok"

\* Packed content that differs from what an earlier upload had left at the
\* key was stored and read back.
C26_PackedContentReadBack ==
    \E p \in Procs :
       /\ Succeeded(p, "getPackedContent")
       /\ inv[p].stored # <<>>
       /\ inv[p].stored.content = "[a.tf]x"

\* C27: two calls of createUserIdHash whose emails are equal once trimmed
\* and lower-cased return the same userId, and hashing the trimmed and
\* lower-cased email again returns the userId the email itself gave.
C27_UserIdIgnoresCaseAndPadding ==
    \A p, q \in Procs :
       (Succeeded(p, "createUserIdHash") /\ Succeeded(q, "createUserIdHash")) =>
          /\ toLowerCase(trim(inv[p].email)) = toLowerCase(trim(inv[q].email))
                => inv[p].ret = inv[q].ret
          /\ createUserIdHash(toLowerCase(trim(inv[p].email))) = inv[p].ret

\* The emails "A@B.com " and "a@b.com" were both hashed.
C27_PaddedUpperCaseEmailHashed ==
    \E p, q \in Procs :
       /\ Succeeded(p, "createUserIdHash")
       /\ Succeeded(q, "createUserIdHash")
       /\ inv[p].email = "A@B.com "
       /\ inv[q].email = "a@b.com"

\* The operation in slot p has finished and the record it wrote is in the
\* table: there was no record at the call, nothing else has written to the
\* item since, and there is a record now.
WroteRecord(p) ==
    /\ inv[p].pc = "done"
    /\ inv[p].alone
    /\ inv[p].pre.item = <<>>
    /\ GetItem(table, inv[p].userId, inv[p].fileId) # <<>>

\* C28: once the operation that wrote a record has finished, returned or
\* thrown, and the record is in the table, that operation has issued the
\* upload of the item's original content.
C28_RecordImpliesContentWriteAttempted ==
    \A p \in Procs :
       WroteRecord(p) => "Upload original_content" \in Range(inv[p].calls)

\* The attributes every creation writes on the record (the WorkItem built by
\* createWorkItem, handleZipFile and handleMultipleFiles).
CreationFields ==
    { "fileName", "fileType", "uploadMode", "analysisStatus",
      "analysisProgress", "iacGenerationStatus", "iacGenerationProgress",
      "s3Prefix" }

\* C29: every record of the table carries the creation fields, with s3Prefix
\* equal to {userId}/{fileId} of its key: no operation applied to an item
\* without a record leaves a record behind that a creation did not write.
C29_EveryRecordCarriesCreationFields ==
    \A k \in DOMAIN table :
       /\ CreationFields \subseteq DOMAIN table[k]
       /\ table[k].s3Prefix = k[1] \o "/" \o k[2]

\* The supporting-document attributes of a record, those it has.
LinkFields ==
    { "supportingDocumentId", "supportingDocumentAdded",
      "supportingDocumentDescription", "supportingDocumentName",
      "supportingDocumentType" }

LinkOf(item) == [f \in LinkFields \cap DOMAIN item |-> item[f]]

\* C30: a storeSupportingDocument that has finished without sending the
\* UpdateItem, its blob or sidecar upload having failed, has thrown 'Failed
\* to store supporting document' and, nothing else having written to the
\* item, the record's supporting-document fields are those it had at the
\* call; and whenever the record links the id of a storeSupportingDocument
\* that it did not link at the call, nothing else having written to the item,
\* that invocation has uploaded the blob, then the sidecar, then sent the
\* UpdateItem, and the blob is in the bucket with the bytes of the call.
C30_LinkOnlyAfterBlobAndSidecar ==
    \A p \in Procs :
       inv[p].op = "storeSupportingDocument" =>
          LET s == inv[p]
              Item == GetItem(table, s.userId, s.fileId)
              blob == supportingDocKey(s.userId, s.fileId, s.supportingDocId)
          IN  /\ (s.pc = "done" /\ s.calls # <<>> /\ "UpdateItem" \notin Range(s.calls)) =>
                    /\ s.result = "fail"
                    /\ s.error = "Failed to store supporting document"
                    /\ s.alone => LinkOf(Item) = LinkOf(s.pre.item)
              /\ (/\ s.alone
                  /\ "supportingDocumentId" \in DOMAIN Item
                  /\ Item.supportingDocumentId = s.supportingDocId
                  /\ LinkOf(Item) # LinkOf(s.pre.item)) =>
                    /\ s.calls = << "Upload supporting_documents/id",
                                    "Upload supporting_documents/id_metadata.json",
                                    "UpdateItem" >>
                    /\ s.result = "ok"
                    /\ blob \in DOMAIN bucket
                    /\ bucket[blob].body = s.fileBuffer

\* A storeSupportingDocument on a work item with a record failed at the
\* sidecar upload, after its blob was written.
C30_SidecarWriteFailed ==
    \E p \in Procs :
       /\ Done(p, "storeSupportingDocument")
       /\ inv[p].result = "fail"
       /\ inv[p].alone
       /\ inv[p].pre.item # <<>>
       /\ inv[p].calls = << "Upload supporting_documents/id",
                            "Upload supporting_documents/id_metadata.json" >>

\* C31: a step in which an invocation issues a store call issues one it has
\* not issued before; when that call fails the invocation is finished in the
\* same step, failed and with an error message, unless it is
\* getOriginalContent's read of the packed content, which goes on to the
\* read of the original content; and a finished invocation issues no call.
C31_NoRetryNoCompensation ==
    [][ \A p \in Procs :
           /\ Acts(p) =>
                 /\ Last(inv'[p].calls) \notin Range(inv[p].calls)
                 /\ faults' # faults =>
                       \/ /\ inv'[p].pc = "done"
                          /\ inv'[p].result = "fail"
                          /\ inv'[p].error # ""
                       \/ /\ inv[p].op = "getOriginalContent"
                          /\ Last(inv'[p].calls) = "GetObject packed_content"
                          /\ inv'[p].pc = "GetOriginal"
           /\ (inv[p].pc = "done" /\ inv'[p] # inv[p]) =>
                 \/ inv'[p].calls = <<>>
                 \/ inv'[p].calls = inv[p].calls ]_vars

\* A createWorkItem failed at the upload of the original content, after its
\* PutItem: it issued nothing more and its record is still in the table.
C31_FailedAfterFirstWrite ==
    \E p \in Procs :
       /\ Done(p, "createWorkItem")
       /\ inv[p].result = "fail"
       /\ inv[p].alone
       /\ inv[p].calls = <<"PutItem", "Upload original_content">>
       /\ GetItem(table, inv[p].userId, inv[p].fileId) = inv[p].workItem

\* The operations that write an object for a work item that exists.
ObjectWriters ==
    { "storeAnalysisResults", "storeIaCDocument", "storePackedContent",
      "storeOriginalContent", "storeSupportingDocument" }

\* C32: once a deleteWorkItem of a work item that had a record and an
\* operation that writes an object for the same work item, having run
\* concurrently, have both returned successfully,
\* the bucket holds no key under {userId}/{fileId} unless the table holds the
\* record of (userId, fileId).
C32_NoObjectOutlivesRecord ==
    \A p, q \in Procs :
       (/\ Succeeded(p, "deleteWorkItem")
        /\ inv[p].pre.item # <<>>
        /\ inv[q].op \in ObjectWriters
        /\ inv[q].pc = "done"
        /\ inv[q].result = "ok"
        /\ inv[q].userId = inv[p].userId
        /\ inv[q].fileId = inv[p].fileId
        /\ inv[p].overlap
        /\ inv[q].overlap
        /\ GetItem(table, inv[p].userId, inv[p].fileId) = <<>>)
       => DOMAIN Under(bucket, inv[p].userId \o "/" \o inv[p].fileId) = {}

\* C33: whenever the table holds the record of a work item and the bucket
\* holds its metadata.json, the snapshot is the JSON of the record.
C33_SnapshotEqualsRecord ==
    \A k \in DOMAIN table :
       LET key == getS3Locations(k[1], k[2]).metadata
       IN  key \in DOMAIN bucket => bucket[key].body = JSONstringify(table[k])

\* C34: an updateWorkItem on a record that exists, with at least one field
\* to set and storage enabled, fails only when the store call does; once it has returned, nothing
\* else having written to the item, each status track the update gave a
\* value has that value on the record and in the returned item, whatever it
\* was before, and each status track the update did not give a value is as
\* it was before.
C34_AnyStatusPersistedTracksIndependent ==
    \A p \in Procs :
       (/\ Done(p, "updateWorkItem")
        /\ inv[p].error # "Storage is not enabled"
        /\ inv[p].alone
        /\ inv[p].pre.item # <<>>
        /\ DOMAIN SetActions(inv[p].updates) # {})
       => LET s == inv[p]
              sets == SetActions(s.updates)
              Item == GetItem(table, s.userId, s.fileId)
          IN  /\ s.result = "fail" => faults > 0
              /\ s.result = "ok" =>
                    \A t \in StatusTracks :
                       IF t \in DOMAIN sets
                       THEN Item[t] = sets[t] /\ s.ret[t] = sets[t]
                       ELSE t \in DOMAIN s.before =>
                               Item[t] = s.before[t] /\ s.ret[t] = s.before[t]

\* An updateWorkItem has set analysisStatus back from COMPLETED to
\* NOT_STARTED on a record whose iacGenerationStatus was NOT_STARTED.
C34_CompletedSetBackToNotStarted ==
    \E p \in Procs :
       /\ Succeeded(p, "updateWorkItem")
       /\ inv[p].alone
       /\ StatusTracks \subseteq DOMAIN inv[p].before
       /\ inv[p].before.analysisStatus = "COMPLETED"
       /\ inv[p].before.iacGenerationStatus = "NOT_STARTED"
       /\ inv[p].updates.vals = [analysisStatus |-> "NOT_STARTED"]

====
